---- MODULE Spec2Model ----
(***************************************************************************)
(* Autoficate: the item-set store (DataItemSetModel), the cache that       *)
(* IndexView keeps in front of it (header list, item windows,              *)
(* full-availability flags) and the requests of IndexView that read and    *)
(* write them.  One step of the model is one complete HTTP request:        *)
(* IndexView.dispatch (init_context, verify_form_data, verify_user_type),  *)
(* the branch of IndexView.post it selects, and page_renderer.             *)
(*                                                                         *)
(* Python values that the code mixes in one place (a cache entry may hold  *)
(* a list, a str, a bool; a session value may be None) are records         *)
(* [t |-> type, v |-> value].                                              *)
(*                                                                         *)
(* Spec is the item-set store behind its cache.  SpecCookie is the         *)
(* identity cookie: encrypted_cookie_data, decrypt_cookie_data and the     *)
(* cookie part of verify_user_type.  SpecExport is the export:             *)
(* render_and_zip_images and the export_images request.                    *)
(***************************************************************************)
EXTENDS Integers, Sequences, FiniteSets, TLC

VARIABLES store, cache, session, req, requests, media

vars == <<store, cache, session, req, requests, media>>

(* ---------------------------------------------------------------------- *)
(* Program constants and bounds                                            *)
(* ---------------------------------------------------------------------- *)

\* IndexView.cache_max_limit: the window size W.
cache_max_limit == 5

\* Longest item list a request may post or a sheet may hold (above W).
MaxItems == 6

\* Most DataItemSetModel rows the user's table holds at one time.
MaxRows == 3

\* Requests of one run.
MaxRequests == 3

\* Most columns of an uploaded sheet.
MaxColumns == 2

(* ---------------------------------------------------------------------- *)
(* Python values                                                           *)
(* ---------------------------------------------------------------------- *)

PyNone == [t |-> "none", v |-> <<>>]

PyList(s) == [t |-> "list", v |-> s]

PyText(s) == [t |-> "str", v |-> s]

PyBool(b) == [t |-> "bool", v |-> b]

\* bool(x) as `if x:` and `not x` evaluate it.
Truthy(x) ==
    CASE x.t = "none" -> FALSE
      [] x.t = "list" -> x.v # <<>>
      [] x.t = "str"  -> x.v # ""
      [] x.t = "bool" -> x.v

\* f"{x}" for the values the code formats into cache keys.
FStr(x) == IF x.t = "none" THEN "None" ELSE x.v

(* ---------------------------------------------------------------------- *)
(* Headings, items and the textual item_set column                         *)
(* ---------------------------------------------------------------------- *)

\* The user code of the session (CustomUser.unique_code, four characters).
UserCode == "ab12"

\* Headings the item form may post (ItemForm.item_heading, required=False,
\* so the empty heading is a legal input).
Headings == {"", "A", "B", "db_cache_headers"}

\* Values the item form posts for position_x.
PositionXs == {0, 1}

\* Raw column titles of uploaded sheets.
RawColumns == {"a", "A", "b"}

\* str(heading).capitalize().replace(" ", "_") on the raw column titles.
Normalise(raw) ==
    CASE raw = "a" -> "A"
      [] raw = "A" -> "A"
      [] raw = "b" -> "B"

Digit(i) ==
    CASE i = 1 -> "1" [] i = 2 -> "2" [] i = 3 -> "3" [] i = 4 -> "4"
      [] i = 5 -> "5" [] i = 6 -> "6" [] i = 7 -> "7" [] i = 8 -> "8"
      [] OTHER -> "9"

\* The list <<p1, p2, ..., pn>>: the i-th item names its position.
Gen(p, n) == [i \in 1..n |-> p \o Digit(i)]

\* Item lists that requests post and sheets hold: the empty list, a list
\* that fills the window exactly, and the longer ones up to MaxItems.
ItemLists == {Gen("x", n) : n \in {0} \cup (cache_max_limit..MaxItems)}

RECURSIVE JoinRepr(_, _)
JoinRepr(l, i) ==
    IF i > Len(l) THEN ""
    ELSE (IF i = 1 THEN "" ELSE ", ") \o "'" \o l[i] \o "'" \o JoinRepr(l, i + 1)

\* str(a_list_of_str): what Django writes into the TextField item_set when
\* it is assigned a list, and what store_excel_to_model writes explicitly.
PyStr(l) == "[" \o JoinRepr(l, 1) \o "]"

\* Texts ast.literal_eval turns into a list of the model's item universe.
NewItem == "n1"

AllLists ==
    ItemLists \cup {<<NewItem>> \o l : l \in ItemLists}
              \cup {l \o <<NewItem>> : l \in ItemLists}

\* The literal of every list of the universe.
ReprOf == [l \in AllLists |-> PyStr(l)]

IsListLiteral(text) == \E l \in AllLists : ReprOf[l] = text

\* ast.literal_eval(text) for a text that is a list literal.
LiteralEval(text) == CHOOSE l \in AllLists : ReprOf[l] = text

\* data[: n]
Prefix(l, n) == SubSeq(l, 1, IF Len(l) < n THEN Len(l) ELSE n)

(* ---------------------------------------------------------------------- *)
(* DataItemSetModel: the table, in primary-key order                       *)
(* ---------------------------------------------------------------------- *)

\* DataItemSetModel(): heading "", item_set "[" "" "]" = "[]", position 0.
\* position_x stands for the fields the item form sets in one assignment
\* block (position_x, position_y, font_size, color, font_name).
NewRow(user) ==
    [user_code |-> user, item_set_heading |-> "", item_set |-> "[]",
     position_x |-> 0]

\* Indices of the rows .filter(user_code=user, item_set_heading=h) selects.
\* h is a Python value: filtering on None selects nothing.
Matching(st, user, h) ==
    {i \in 1..Len(st) :
        /\ st[i].user_code = user
        /\ h.t = "str"
        /\ st[i].item_set_heading = h.v}

\* .get(...): the row, or the exception Django raises.
GetStatus(st, user, h) ==
    CASE Cardinality(Matching(st, user, h)) = 0 -> "ObjectDoesNotExist"
      [] Cardinality(Matching(st, user, h)) = 1 -> "ok"
      [] OTHER -> "MultipleObjectsReturned"

GetIndex(st, user, h) == CHOOSE i \in Matching(st, user, h) : TRUE

RECURSIVE HeadingsFrom(_, _, _)
HeadingsFrom(st, user, i) ==
    IF i > Len(st) THEN <<>>
    ELSE (IF st[i].user_code = user THEN <<st[i].item_set_heading>> ELSE <<>>)
         \o HeadingsFrom(st, user, i + 1)

\* list(filter(user_code=user).values_list("item_set_heading", flat=True))
HeadingList(st, user) == HeadingsFrom(st, user, 1)

\* instance.delete()
DeleteRow(st, i) == [j \in 1..(Len(st) - 1) |-> IF j < i THEN st[j] ELSE st[j + 1]]

(* ---------------------------------------------------------------------- *)
(* django.core.cache.cache: a map from key strings to values              *)
(* ---------------------------------------------------------------------- *)

CacheGet(ca, k) == IF k \in DOMAIN ca THEN ca[k] ELSE PyNone

CacheGetDefault(ca, k, d) == IF k \in DOMAIN ca THEN ca[k] ELSE d

CacheSet(ca, k, val) == [x \in (DOMAIN ca) \cup {k} |-> IF x = k THEN val ELSE ca[x]]

CacheDelete(ca, k) == [x \in (DOMAIN ca) \ {k} |-> ca[x]]

EmptyCache == [x \in {} |-> PyNone]

\* self.cache_key_header, set in verify_user_type.
HeaderKey(user) == user \o "-db_cache_headers"

\* f"{user_code}-{heading}"
ItemKey(user, h) == user \o "-" \o h

\* f"{user_code}-{heading}-full_available"
FullKey(user, h) == user \o "-" \o h \o "-full_available"

(* ---------------------------------------------------------------------- *)
(* IndexView.reload_cache                                                  *)
(* ---------------------------------------------------------------------- *)

\* header_items[0] == "__all__".  Indexing a str gives one character, which
\* never equals the seven-character sentinel.
IsAll(header_items) ==
    /\ header_items.t = "list"
    /\ header_items.v # <<>>
    /\ header_items.v[1] = "__all__"

\* header_items[0] raises IndexError on an empty list and on an empty str.
RaisesIndexError(header_items) ==
    \/ header_items.t = "list" /\ header_items.v = <<>>
    \/ header_items.t = "str" /\ header_items.v = ""

\* ast.literal_eval(data_item_set_model.get(item_set_heading=h).item_set)
StoredList(st, user, h) == LiteralEval(st[GetIndex(st, user, PyText(h))].item_set)

\* The loop that fills inspector_data_buffer and
\* inspector_full_available_buffer: "ok", or the first exception it raises.
RECURSIVE LoadLoop(_, _, _, _)
LoadLoop(st, user, items, i) ==
    IF i > Len(items) THEN "ok"
    ELSE LET status == GetStatus(st, user, PyText(items[i])) IN
         IF status # "ok" THEN status
         ELSE IF ~IsListLiteral(st[GetIndex(st, user, PyText(items[i]))].item_set)
              THEN "ValueError"
              ELSE LoadLoop(st, user, items, i + 1)

\* The "Update cache" loop: data[: cache_max_limit] under f"{user}-{item}",
\* skipping the key that equals cache_key_header.
RECURSIVE WriteWindows(_, _, _, _, _)
WriteWindows(ca, st, user, items, i) ==
    IF i > Len(items) THEN ca
    ELSE LET cache_key == ItemKey(user, items[i])
             written ==
                 IF cache_key = HeaderKey(user) THEN ca
                 ELSE CacheSet(ca, cache_key,
                               PyList(Prefix(StoredList(st, user, items[i]),
                                             cache_max_limit)))
         IN WriteWindows(written, st, user, items, i + 1)

\* The "Update full availability flags" loop.
RECURSIVE WriteFlags(_, _, _, _, _)
WriteFlags(ca, st, user, items, i) ==
    IF i > Len(items) THEN ca
    ELSE WriteFlags(
             CacheSet(ca, FullKey(user, items[i]),
                      PyBool(Len(StoredList(st, user, items[i])) <= cache_max_limit)),
             st, user, items, i + 1)

\* The header list written only when the cache holds no header-list entry.
SetHeadersIfAbsent(ca, st, user, headers) ==
    IF headers /\ HeaderKey(user) \notin DOMAIN ca
    THEN CacheSet(ca, HeaderKey(user), PyList(HeadingList(st, user)))
    ELSE ca

\* The final `if headers:` block: cache.set(cache_key_header, inspector_header).
\* (It also copies the list to session["inspector_header"], which only the
\* template reads.)
SetHeaders(ca, st, user, headers) ==
    IF headers THEN CacheSet(ca, HeaderKey(user), PyList(HeadingList(st, user))) ELSE ca

\* The item block with the headings read from the store whenever the cache
\* holds no header-list entry.
ReloadItemsFromStore(st, ca, user, headers, header_items) ==
    LET cached == CacheGet(ca, HeaderKey(user))
        items == IF headers \/ cached.t # "list" THEN HeadingList(st, user) ELSE cached.v
        status == LoadLoop(st, user, items, 1)
    IN IF status = "ok"
       THEN [cache |-> SetHeaders(
                          WriteFlags(WriteWindows(ca, st, user, items, 1),
                                     st, user, items, 1),
                          st, user, headers),
             result |-> "None"]
       ELSE IF status = "ObjectDoesNotExist"
       THEN [cache |-> ca, result |-> "False"]
       ELSE [cache |-> ca, result |-> status]

\* The item block without the `except ObjectDoesNotExist` handler: the
\* exception raised for an absent header-list entry reaches the caller.
ReloadItemsUncaught(st, ca, user, headers, header_items) ==
    IF ~headers /\ CacheGet(ca, HeaderKey(user)).t = "none"
    THEN [cache |-> ca, result |-> "ObjectDoesNotExist"]
    ELSE ReloadItemsFromStore(st, ca, user, headers, header_items)

\* The item block of reload_cache.  It is nested under
\* `if header_items[0] == "__all__":`, so it runs for the sentinel only.
ReloadItems(st, ca, user, headers, header_items) ==
    LET cached == CacheGet(ca, HeaderKey(user)) IN
    IF ~headers /\ cached.t = "none"
    THEN [cache |-> ca, result |-> "False"]          \* raise ObjectDoesNotExist()
    ELSE IF ~headers /\ cached.t = "bool"
    THEN [cache |-> ca, result |-> "TypeError"]      \* a bool is not iterable
    ELSE IF ~headers /\ cached.t = "str"
    \* iterating a str gives its characters; no stored heading of the model
    \* is one character of a list literal, so the first .get() finds no row
    THEN [cache |-> IF cached.v = "" THEN SetHeaders(ca, st, user, headers) ELSE ca,
          result |-> IF cached.v = "" THEN "None" ELSE "False"]
    ELSE LET items == IF headers THEN HeadingList(st, user) ELSE cached.v
             status == LoadLoop(st, user, items, 1)
         IN IF status = "ok"
            THEN [cache |-> SetHeaders(
                               WriteFlags(WriteWindows(ca, st, user, items, 1),
                                          st, user, items, 1),
                               st, user, headers),
                  result |-> "None"]
            ELSE IF status = "ObjectDoesNotExist"
            THEN [cache |-> ca, result |-> "False"]  \* except ObjectDoesNotExist
            ELSE [cache |-> ca, result |-> status]   \* except Exception: raise

\* reload_cache(headers, header_items): the cache it leaves and its result,
\* "None" or "False" for a return value, otherwise the exception it raises.
ReloadCache(st, ca, user, headers, header_items) ==
    IF header_items.t = "none"
    THEN [cache |-> SetHeaders(ca, st, user, headers), result |-> "None"]
    ELSE IF RaisesIndexError(header_items)
    THEN [cache |-> ca, result |-> "IndexError"]
    ELSE IF IsAll(header_items)
    THEN ReloadItems(st, ca, user, headers, header_items)
    ELSE [cache |-> SetHeaders(ca, st, user, headers), result |-> "None"]

\* Whether a result of ReloadCache is an exception that reaches the caller.
Raised(result) == result \notin {"None", "False"}

(* ---------------------------------------------------------------------- *)
(* IndexView.dispatch: what runs before every handler                      *)
(* ---------------------------------------------------------------------- *)

\* verify_form_data: the .get() for the current header.  ObjectDoesNotExist
\* is handled there; any other exception is re-raised.
VerifyFormData(st, se) ==
    IF se.current_header.t # "none" /\ se.user_code.t # "none"
       /\ GetStatus(st, se.user_code.v, se.current_header) = "MultipleObjectsReturned"
    THEN "MultipleObjectsReturned"
    ELSE "ok"

\* verify_user_type, the part that touches the cache:
\* `if not cache.get(self.cache_key_header) and user_code:` reload everything.
VerifyUserType(st, ca, se) ==
    IF ~Truthy(CacheGet(ca, HeaderKey(se.user_code.v))) /\ Truthy(se.user_code)
    THEN ReloadCache(st, ca, se.user_code.v, TRUE, PyList(<<"__all__">>))
    ELSE [cache |-> ca, result |-> "None"]

\* dispatch up to the handler: exc is "ok" when the handler is reached.
\* reloaded tells whether verify_user_type reloaded the cache.
Dispatch(st, ca, se) ==
    IF VerifyFormData(st, se) # "ok"
    THEN [exc |-> VerifyFormData(st, se), cache |-> ca, reloaded |-> FALSE]
    ELSE LET r == VerifyUserType(st, ca, se) IN
         [exc |-> IF Raised(r.result) THEN r.result ELSE "ok",
          cache |-> r.cache,
          reloaded |-> ~Truthy(CacheGet(ca, HeaderKey(se.user_code.v)))
                       /\ Truthy(se.user_code) /\ r.result = "None"]

(* ---------------------------------------------------------------------- *)
(* Requests                                                                *)
(* ---------------------------------------------------------------------- *)

ToSet(s) == {s[i] : i \in DOMAIN s}

\* What a request leaves behind for the page and for the caller.
\*   op, arg         the request and its heading argument
\*   old             session["current_header"] when the request arrived
\*   ran             the handler was reached (dispatch raised nothing)
\*   outcome         "ok", or the exception that ended the request
\*   inspector_data  context["inspector_data"], for the requests that read
\*                   an item window for display
\*   miss            the item window read for display was absent
\*   reloaded        headings the request's last reload_cache call covered,
\*                   by a list that names them or through ["__all__"], when
\*                   the request wrote neither store nor cache after it
\*   old_data, new_data   payload of SimilarItemHeadingDataError
Report(op, arg, old, ran, outcome, data, miss, reloaded, old_data, new_data) ==
    [op |-> op, arg |-> arg, old |-> old, ran |-> ran, outcome |-> outcome,
     inspector_data |-> data, miss |-> miss, reloaded |-> reloaded,
     old_data |-> old_data, new_data |-> new_data]

\* page_renderer: context["full_available"] of the rendered page.
FullAvailable ==
    CacheGetDefault(cache,
                    FullKey(FStr(session.user_code), FStr(session.current_header)),
                    PyBool(FALSE))

\* The item window verify_user_type puts into context["inspector_data"].
DispatchData(ca, se, d) ==
    IF d.reloaded \/ se.current_header.t # "none"
    THEN CacheGet(ca, ItemKey(FStr(se.user_code), FStr(se.current_header)))
    ELSE PyNone

\* One more request of the bounded run.
Tick ==
    /\ requests < MaxRequests
    /\ requests' = requests + 1

\* A request ended by an exception.  The response is a 500, for which
\* SessionMiddleware does not save the session: the session keeps the
\* values it had when the request arrived.
Fail(op, arg, ran, exc, st, ca) ==
    /\ store' = st
    /\ cache' = ca
    /\ session' = session
    /\ req' = Report(op, arg, session.current_header, ran, exc, PyNone, FALSE,
                     {}, "", "")

\* The number of ImageModel rows of the user, the paths that exist under
\* MEDIA_ROOT and the member names of the export archive: no image
\* uploaded, nothing exported.
NoMedia == [image_models |-> 0, files |-> {}, archive |-> {}]

Init ==
    /\ media = NoMedia
    /\ store = <<>>
    /\ cache = EmptyCache
    /\ session = [user_code |-> PyText(UserCode), current_header |-> PyNone]
    /\ req = Report("init", PyNone, PyNone, FALSE, "ok", PyNone, FALSE, {}, "", "")
    /\ requests = 0

\* GET /: dispatch and render.
Get ==
    /\ Tick
    /\ UNCHANGED media
    /\ LET d == Dispatch(store, cache, session) IN
       IF d.exc # "ok"
       THEN Fail("get", PyNone, FALSE, d.exc, store, d.cache)
       ELSE /\ store' = store
            /\ cache' = d.cache
            /\ session' = session
            /\ req' = Report("get", PyNone, session.current_header, TRUE, "ok",
                             DispatchData(d.cache, session, d),
                             /\ session.current_header.t # "none"
                             /\ ItemKey(FStr(session.user_code),
                                        FStr(session.current_header)) \notin DOMAIN cache,
                             IF d.reloaded
                             THEN ToSet(HeadingList(store, session.user_code.v))
                             ELSE {},
                             "", "")

\* a == b on two Python values
PyEq(a, b) == a.t = b.t /\ a.v = b.v

\* POST submit_add=add_blank_item_heading
AddBlankItemHeading ==
    /\ Tick
    /\ UNCHANGED media
    /\ LET d == Dispatch(store, cache, session)
           user == session.user_code.v
           exists == Matching(store, user, PyText("")) # {}
       IN
       IF d.exc # "ok"
       THEN Fail("add_blank_item_heading", PyNone, FALSE, d.exc, store, d.cache)
       ELSE /\ exists \/ Len(store) < MaxRows
            /\ store' = IF exists THEN store ELSE Append(store, NewRow(user))
            /\ cache' = d.cache
            /\ session' = [session EXCEPT !.current_header = PyText("")]
            /\ req' = Report("add_blank_item_heading", PyNone, session.current_header,
                             TRUE, "ok", PyNone, FALSE, {}, "", "")

\* update_item_heading, the try/except that finds the instance to update:
\* kind "new" (a fresh DataItemSetModel), "row" (the stored row i),
\* "queryset" (the unevaluated filter(): it has no save()), or the
\* exception that leaves the block.
ResolveInstance(st, ca, se, item_heading) ==
    LET user == se.user_code.v
        cached == CacheGetDefault(ca, HeaderKey(user), PyList(<<>>))
        first == GetStatus(st, user, se.current_header)
        second == GetStatus(st, user, PyText(item_heading))
    IN
    IF cached.t = "bool" THEN [kind |-> "TypeError", i |-> 0]
    ELSE IF \/ cached.t = "list" /\ cached.v = <<>>
            \/ cached.t = "str" /\ cached.v = ""
    THEN IF Matching(st, user, PyText("")) = {}
         THEN [kind |-> "new", i |-> 0]
         ELSE [kind |-> "queryset", i |-> 0]
    ELSE IF first = "ok"
    THEN [kind |-> "row", i |-> GetIndex(st, user, se.current_header)]
    ELSE IF first = "MultipleObjectsReturned"
    THEN [kind |-> first, i |-> 0]
    \* except ObjectDoesNotExist:
    ELSE IF ~PyEq(se.current_header, PyText(""))
    THEN [kind |-> "HeaderDataNotFoundError", i |-> 0]   \* the same .get() again
    ELSE IF item_heading # ""
    THEN IF second = "ok"
         THEN [kind |-> "row", i |-> GetIndex(st, user, PyText(item_heading))]
         ELSE IF second = "MultipleObjectsReturned"
         THEN [kind |-> second, i |-> 0]
         ELSE [kind |-> "HeaderDataNotFoundError", i |-> 0]
    ELSE [kind |-> "HeaderDataNotFoundError", i |-> 0]

\* The transaction.atomic() block of update_item_heading: the form's heading
\* and fields are assigned to the instance and it is saved.  Nothing looks
\* for another row with the same heading.
SaveHeading(st, user, inst, item_heading, position_x) ==
    IF inst.kind = "new"
    THEN Append(st, [NewRow(user) EXCEPT !.item_set_heading = item_heading,
                                         !.position_x = position_x])
    ELSE [st EXCEPT ![inst.i].item_set_heading = item_heading,
                    ![inst.i].position_x = position_x]

\* POST submit_update=update_item_heading with a valid ItemForm.
UpdateItemHeading(item_heading, position_x) ==
    /\ Tick
    /\ UNCHANGED media
    /\ LET d == Dispatch(store, cache, session)
           user == session.user_code.v
           inst == ResolveInstance(store, d.cache, session, item_heading)
           saved == SaveHeading(store, user, inst, item_heading, position_x)
           r == ReloadCache(saved, d.cache, user, TRUE, PyText(item_heading))
       IN
       IF d.exc # "ok"
       THEN Fail("update_item_heading", PyText(item_heading), FALSE, d.exc, store, d.cache)
       ELSE IF inst.kind = "queryset"
       THEN Fail("update_item_heading", PyText(item_heading), TRUE, "AttributeError",
                 store, d.cache)
       ELSE IF inst.kind \notin {"new", "row"}
       THEN Fail("update_item_heading", PyText(item_heading), TRUE, inst.kind,
                 store, d.cache)
       ELSE /\ inst.kind = "new" => Len(store) < MaxRows
            /\ IF Raised(r.result)
               THEN Fail("update_item_heading", PyText(item_heading), TRUE, r.result,
                         saved, r.cache)
               ELSE /\ store' = saved
                    /\ cache' = r.cache
                    /\ session' = [session EXCEPT !.current_header = PyText(item_heading)]
                    /\ req' = Report("update_item_heading", PyText(item_heading),
                                     session.current_header, TRUE, "ok", PyNone, FALSE,
                                     {}, "", "")

\* Uploaded sheets: one to MaxColumns columns with distinct raw titles
\* (excel_to_dataframe rejects equal titles), all of the table's length.
ExcelFiles ==
    {f \in UNION {[1..n -> RawColumns \X {l}] : n \in 1..MaxColumns, l \in ItemLists} :
        \A i, j \in DOMAIN f : i # j => f[i][1] # f[j][1]}

\* The loop of store_excel_to_model inside transaction.atomic().
\* instance_item_headings is evaluated once, at the first `not in`, before
\* any row of this sheet is saved: `snapshot` is that result.
RECURSIVE ExcelLoop(_, _, _, _, _)
ExcelLoop(st, snapshot, user, file, i) ==
    IF i > Len(file)
    THEN [store |-> st, outcome |-> "ok", old_data |-> "", new_data |-> ""]
    ELSE LET final_heading == Normalise(file[i][1])
             text == PyStr(file[i][2])
             status == GetStatus(st, user, PyText(final_heading))
         IN
         IF final_heading \notin snapshot
         THEN ExcelLoop(
                  Append(st, [NewRow(user) EXCEPT !.item_set_heading = final_heading,
                                                  !.item_set = text]),
                  snapshot, user, file, i + 1)
         ELSE IF status = "ok"
         THEN [store |-> st, outcome |-> "SimilarItemHeadingDataError",
               old_data |-> st[GetIndex(st, user, PyText(final_heading))].item_set,
               new_data |-> text]
         ELSE [store |-> st, outcome |-> status, old_data |-> "", new_data |-> ""]

\* store_excel_to_model: an exception inside the atomic block rolls back the
\* rows the loop saved.
StoreExcelToModel(st, user, file) ==
    LET run == ExcelLoop(st, ToSet(HeadingList(st, user)), user, file, 1) IN
    IF run.outcome = "ok" THEN run ELSE [run EXCEPT !.store = st]

\* POST submit=load_excel_submit with a valid ExcelForm.  The session has no
\* image_url, so render_preview_url returns at its first test.
LoadExcel(file) ==
    /\ Tick
    /\ UNCHANGED media
    /\ LET d == Dispatch(store, cache, session)
           user == session.user_code.v
           run == StoreExcelToModel(store, user, file)
           r == ReloadCache(run.store, d.cache, user, TRUE, PyList(<<"__all__">>))
           first == CacheGet(r.cache, HeaderKey(user)).v[1]
       IN
       IF d.exc # "ok"
       THEN Fail("load_excel", PyNone, FALSE, d.exc, store, d.cache)
       ELSE IF run.outcome # "ok"
       THEN /\ store' = run.store
            /\ cache' = d.cache
            /\ session' = session
            /\ req' = Report("load_excel", PyNone, session.current_header, TRUE,
                             run.outcome, PyNone, FALSE, {}, run.old_data, run.new_data)
       ELSE /\ Len(run.store) <= MaxRows
            /\ IF Raised(r.result)
               THEN Fail("load_excel", PyNone, TRUE, r.result, run.store, r.cache)
               ELSE /\ store' = run.store
                    /\ cache' = r.cache
                    /\ session' = [session EXCEPT !.current_header = PyText(first)]
                    /\ req' = Report("load_excel", PyNone, session.current_header, TRUE,
                                     "ok", CacheGet(r.cache, ItemKey(user, first)), FALSE,
                                     ToSet(HeadingList(run.store, user)), "", "")

\* POST inspector_header_item=h (a non-empty value selects this branch).
InspectorHeaderItem(h) ==
    /\ Tick
    /\ UNCHANGED media
    /\ LET d == Dispatch(store, cache, session)
           user == session.user_code.v
           status == GetStatus(store, user, PyText(h))
       IN
       IF d.exc # "ok"
       THEN Fail("inspector_header_item", PyText(h), FALSE, d.exc, store, d.cache)
       ELSE IF status # "ok"
       THEN Fail("inspector_header_item", PyText(h), TRUE, status, store, d.cache)
       ELSE /\ store' = store
            /\ cache' = d.cache
            /\ session' = [session EXCEPT !.current_header = PyText(h)]
            /\ req' = Report("inspector_header_item", PyText(h), session.current_header,
                             TRUE, "ok", CacheGet(d.cache, ItemKey(user, h)),
                             ItemKey(user, h) \notin DOMAIN d.cache, {}, "", "")

\* POST submit_remove=inspector_header_item_remove, header_item=h.
InspectorHeaderItemRemove(h) ==
    /\ Tick
    /\ UNCHANGED media
    /\ LET d == Dispatch(store, cache, session)
           user == session.user_code.v
           status == GetStatus(store, user, PyText(h))
           deleted == DeleteRow(store, GetIndex(store, user, PyText(h)))
           \* cache.delete(instance.item_set_heading): the key is the bare heading
           r == ReloadCache(deleted, CacheDelete(d.cache, h), user, TRUE, PyNone)
       IN
       IF d.exc # "ok"
       THEN Fail("inspector_header_item_remove", PyText(h), FALSE, d.exc, store, d.cache)
       ELSE IF status # "ok"
       THEN Fail("inspector_header_item_remove", PyText(h), TRUE, status, store, d.cache)
       ELSE /\ store' = deleted
            /\ cache' = r.cache
            /\ session' = IF PyEq(session.current_header, PyText(h))
                          THEN [session EXCEPT !.current_header = PyNone]
                          ELSE session
            /\ req' = Report("inspector_header_item_remove", PyText(h),
                             session.current_header, TRUE, "ok", PyNone, FALSE, {}, "", "")

\* old_item_data and new_item_data of update_inspector_data.  The posted
\* list is used only when the heading's full-availability flag is truthy.
OldItemData(ca, se, posted) ==
    IF Truthy(posted)
       /\ Truthy(CacheGet(ca, FullKey(FStr(se.user_code), FStr(se.current_header))))
    THEN posted
    ELSE PyNone

\* The value assigned to instance.item_set.  list.extend() works in place
\* and returns None, and both branches assign that return value.
NewItemSet(stored, old_item_data, new_item_data) ==
    IF Truthy(new_item_data)
    THEN PyNone
    ELSE IF Truthy(old_item_data) THEN old_item_data ELSE PyList(stored)

\* Lists the inspector may post as inspector_data_item.
PostedLists == {PyNone} \cup {PyList(l) : l \in ItemLists \ {<<>>}}

\* Lists the inspector may post as inspector_data_item_new.
PostedNew == {PyNone, PyList(<<NewItem>>)}

\* POST submit=update_inspector_data.
UpdateInspectorData(posted, new_item_data, location) ==
    /\ Tick
    /\ UNCHANGED media
    /\ LET d == Dispatch(store, cache, session)
           user == session.user_code.v
           status == GetStatus(store, user, session.current_header)
           i == GetIndex(store, user, session.current_header)
           old_item_data == OldItemData(d.cache, session, posted)
           item_set == NewItemSet(LiteralEval(store[i].item_set), old_item_data,
                                  new_item_data)
           \* a list assigned to the TextField is saved as str(list)
           saved == [store EXCEPT ![i].item_set = PyStr(item_set.v)]
           r == ReloadCache(saved, d.cache, user, FALSE,
                            PyList(<<FStr(session.current_header)>>))
       IN
       IF d.exc # "ok"
       THEN Fail("update_inspector_data", session.current_header, FALSE, d.exc,
                 store, d.cache)
       ELSE IF status # "ok"
       THEN Fail("update_inspector_data", session.current_header, TRUE, status,
                 store, d.cache)
       ELSE IF ~Truthy(old_item_data) /\ ~IsListLiteral(store[i].item_set)
       THEN Fail("update_inspector_data", session.current_header, TRUE, "ValueError",
                 store, d.cache)
       ELSE IF item_set.t = "none"
       \* item_set is NOT NULL: instance.save() raises
       THEN Fail("update_inspector_data", session.current_header, TRUE, "IntegrityError",
                 store, d.cache)
       ELSE IF Raised(r.result)
       THEN Fail("update_inspector_data", session.current_header, TRUE, r.result,
                 saved, r.cache)
       ELSE /\ store' = saved
            /\ cache' = r.cache
            /\ session' = session
            /\ req' = Report("update_inspector_data", session.current_header,
                             session.current_header, TRUE, "ok", PyNone, FALSE,
                             {FStr(session.current_header)}, "", "")

\* POST submit=load_all_inspector_data.
LoadAllInspectorData ==
    /\ Tick
    /\ UNCHANGED media
    /\ LET d == Dispatch(store, cache, session)
           user == session.user_code.v
           status == GetStatus(store, user, session.current_header)
           instance == store[GetIndex(store, user, session.current_header)]
           full_item_set_list == LiteralEval(instance.item_set)
           window == CacheSet(d.cache,
                              ItemKey(FStr(session.user_code), instance.item_set_heading),
                              PyText(PyStr(full_item_set_list)))
           flagged == CacheSet(window,
                               FullKey(FStr(session.user_code),
                                       FStr(session.current_header)),
                               PyBool(TRUE))
       IN
       IF d.exc # "ok"
       THEN Fail("load_all_inspector_data", session.current_header, FALSE, d.exc,
                 store, d.cache)
       ELSE IF status # "ok"
       THEN Fail("load_all_inspector_data", session.current_header, TRUE, status,
                 store, d.cache)
       ELSE IF ~IsListLiteral(instance.item_set)
       THEN Fail("load_all_inspector_data", session.current_header, TRUE, "ValueError",
                 store, d.cache)
       ELSE /\ store' = store
            /\ cache' = flagged
            /\ session' = session
            /\ req' = Report("load_all_inspector_data", session.current_header,
                             session.current_header, TRUE, "ok",
                             PyList(full_item_set_list), FALSE, {}, "", "")

Next ==
    \/ Get
    \/ AddBlankItemHeading
    \/ \E h \in Headings, x \in PositionXs : UpdateItemHeading(h, x)
    \/ \E file \in ExcelFiles : LoadExcel(file)
    \/ \E h \in Headings \ {""} : InspectorHeaderItem(h)
    \/ \E h \in Headings : InspectorHeaderItemRemove(h)
    \/ \E posted \in PostedLists, new \in PostedNew, location \in {"top", "bottom"} :
           UpdateInspectorData(posted, new, location)
    \/ LoadAllInspectorData

Spec == Init /\ [][Next]_vars

(* ---------------------------------------------------------------------- *)
(* Claims                                                                  *)
(* ---------------------------------------------------------------------- *)

User == session.user_code.v

\* Headings that name exactly one stored item set of the user.
StoredHeadings ==
    {h \in ToSet(HeadingList(store, User)) : GetStatus(store, User, PyText(h)) = "ok"}

\* First min(L, W) items of the stored list of h.
Window(h) == PyList(Prefix(StoredList(store, User, h), cache_max_limit))

\* L <= W for the stored list of h.
Fits(h) == PyBool(Len(StoredList(store, User, h)) <= cache_max_limit)

\* Every heading string the model can store.
AllHeadings == Headings \cup {Normalise(raw) : raw \in RawColumns}

\* C1: after a reload_cache call that covers heading H, named in
\* header_items or reached through "__all__", the item window of H is the
\* first min(L, W) stored items and its flag is true iff L <= W.
C1_WindowAfterReload ==
    \A h \in req.reloaded \cap StoredHeadings :
        /\ PyEq(CacheGet(cache, ItemKey(User, h)), Window(h))
        /\ PyEq(CacheGet(cache, FullKey(User, h)), Fits(h))

\* C2: after refresh, load-all and item-update requests, a true flag of H
\* means the item window of H is the complete stored list of H, as a list,
\* and otherwise the window holds at most W items.
C2_FlagMeansFullList ==
    (req.op \in {"get", "load_all_inspector_data", "update_inspector_data"}
     /\ req.outcome = "ok")
    => \A h \in StoredHeadings \ {"db_cache_headers"} :
           LET window == CacheGet(cache, ItemKey(User, h)) IN
           IF Truthy(CacheGet(cache, FullKey(User, h)))
           THEN PyEq(window, PyList(StoredList(store, User, h)))
           ELSE window.t \in {"list", "str"} => Len(window.v) <= cache_max_limit

\* C3: after a completed create, rename or delete request the header-list
\* entry, if present, lists exactly the stored headings.
C3_HeaderListExact ==
    (req.op \in {"add_blank_item_heading", "load_excel", "update_item_heading",
                 "inspector_header_item_remove"}
     /\ req.outcome = "ok"
     /\ HeaderKey(User) \in DOMAIN cache)
    => /\ cache[HeaderKey(User)].t = "list"
       /\ ToSet(cache[HeaderKey(User)].v) = ToSet(HeadingList(store, User))

\* C4: after a remove-header request deleted heading H, neither the item
\* window key nor the flag key of H is in the cache.  (H = db_cache_headers,
\* whose item key is the header-list key, is left out.)
C4_RemoveEvicts ==
    (req.op = "inspector_header_item_remove" /\ req.outcome = "ok"
     /\ req.arg.v # "db_cache_headers")
    => /\ ItemKey(User, req.arg.v) \notin DOMAIN cache
       /\ FullKey(User, req.arg.v) \notin DOMAIN cache

\* C5: after update_item_heading renamed a row from A to B, where A had an
\* item window, the cache holds no window and no flag under A and holds
\* under B the window of the stored list.  (A and B range over the headings
\* whose item key is not the header-list key.)
C5_RenameMovesEntries ==
    [][\A i \in DOMAIN store :
          (/\ req'.op = "update_item_heading"
           /\ req'.outcome = "ok"
           /\ i \in DOMAIN store'
           /\ store'[i].item_set_heading # store[i].item_set_heading
           /\ ItemKey(User, store[i].item_set_heading) \in DOMAIN cache
           /\ store[i].item_set_heading # "db_cache_headers"
           /\ store'[i].item_set_heading # "db_cache_headers")
          => /\ ItemKey(User, store[i].item_set_heading) \notin DOMAIN cache'
             /\ FullKey(User, store[i].item_set_heading) \notin DOMAIN cache'
             /\ ItemKey(User, store'[i].item_set_heading) \in DOMAIN cache'
             /\ IsListLiteral(store'[i].item_set)
             /\ PyEq(cache'[ItemKey(User, store'[i].item_set_heading)],
                     PyList(Prefix(LiteralEval(store'[i].item_set), cache_max_limit)))
      ]_vars

\* C6: while the user owns an item set headed "db_cache_headers", refresh
\* and load-all requests leave under the header-list key nothing but a list
\* of headings.
C6_HeaderKeyHoldsHeadings ==
    (/\ req.op \in {"get", "load_all_inspector_data"}
     /\ "db_cache_headers" \in ToSet(HeadingList(store, User))
     /\ HeaderKey(User) \in DOMAIN cache)
    => /\ cache[HeaderKey(User)].t = "list"
       /\ ToSet(cache[HeaderKey(User)].v) \subseteq AllHeadings

\* C7: a stored heading read for display whose item window is absent gets
\* the window repopulated from the store: the page shows the stored window
\* and its flag.
C7_MissRepopulates ==
    (/\ req.op \in {"inspector_header_item", "get"}
     /\ req.outcome = "ok"
     /\ req.miss
     /\ session.current_header.t = "str"
     /\ session.current_header.v \in StoredHeadings \ {"db_cache_headers"})
    => /\ PyEq(req.inspector_data, Window(session.current_header.v))
       /\ PyEq(FullAvailable, Fits(session.current_header.v))

\* C8: update_item_heading that renames A to B while the user has an item
\* set B with a non-empty list fails with a conflict error and leaves the
\* stored item sets as they were.
C8_RenameConflictFails ==
    [][\A h \in Headings, x \in PositionXs :
          (/\ UpdateItemHeading(h, x)
           /\ req'.ran
           /\ GetStatus(store, User, session.current_header) = "ok"
           /\ session.current_header.v # h
           /\ \E j \in Matching(store, User, PyText(h)) : store[j].item_set # "[]")
          => /\ req'.outcome \in {"SimilarItemHeadingDataError", "SimilarItemHeadingError"}
             /\ store' = store
      ]_vars

\* C9: no user ever has two stored item sets with the same heading.
C9_HeadingsUnique ==
    \A i, j \in DOMAIN store :
        (i # j /\ store[i].user_code = store[j].user_code)
        => store[i].item_set_heading # store[j].item_set_heading

\* C10: store_excel_to_model on a sheet with a column whose normalised
\* heading the user already has raises SimilarItemHeadingDataError carrying
\* the stored list and the incoming list, and changes no stored item set.
C10_ExcelAllOrNothing ==
    [][\A file \in ExcelFiles :
          (/\ LoadExcel(file)
           /\ req'.ran
           /\ \E k \in DOMAIN file :
                  Normalise(file[k][1]) \in ToSet(HeadingList(store, User)))
          => /\ req'.outcome = "SimilarItemHeadingDataError"
             /\ store' = store
             /\ \E k \in DOMAIN file :
                    /\ req'.new_data = PyStr(file[k][2])
                    /\ \E i \in Matching(store, User, PyText(Normalise(file[k][1]))) :
                           req'.old_data = store[i].item_set
      ]_vars

(* ---------------------------------------------------------------------- *)
(* Identity cookie: encrypted_cookie_data / decrypt_cookie_data            *)
(* ---------------------------------------------------------------------- *)

\* Bytes are sequences of 0..255.  A text handed to base64 is a sequence of
\* characters: 0..63 is a character of the base64 alphabet (its 6-bit
\* value), 64 is "=", 65 is an ASCII character outside the alphabet.
PyBytes(b) == [t |-> "bytes", v |-> b]

PyChars(c) == [t |-> "chars", v |-> c]

\* iv_size = 16, also the argument of os.urandom and the AES block in bytes.
iv_size == 16

\* The name `padding` in views.py: the import of line 17 binds the module
\* with PKCS7, the import of line 18 rebinds the name to
\* cryptography.hazmat.primitives.asymmetric.padding, which has no PKCS7.
padding == "asymmetric.padding"

\* padding.PKCS7 resolves.
HasPKCS7(module) == module = "primitives.padding"

\* settings.SECRET_KEY: a configured text of 50 ASCII characters.
SECRET_KEY == [i \in 1..50 |-> 97 + (i % 26)]

\* settings.SECRET_KEY[:32].encode("utf-8")
KeyBytes == Prefix(SECRET_KEY, 32)

\* algorithms.AES(key) accepts keys of 128, 192 and 256 bits.
AESKeyOk(key) == Len(key) \in {16, 24, 32}

\* str.encode("utf-8") of the user codes of the model.
Utf8 == ("ab12" :> <<97, 98, 49, 50>>) @@ ("zz99" :> <<122, 122, 57, 57>>)

\* bytes.decode("utf-8"): "ok" with the text, or UnicodeDecodeError.  A
\* byte string that is no user code of the model decodes to other text.
Utf8Decode(b) ==
    IF \E i \in DOMAIN b : b[i] >= 128 THEN [exc |-> "UnicodeDecodeError", v |-> PyNone]
    ELSE IF \E c \in DOMAIN Utf8 : Utf8[c] = b
    THEN [exc |-> "ok", v |-> PyText(CHOOSE c \in DOMAIN Utf8 : Utf8[c] = b)]
    ELSE [exc |-> "ok", v |-> PyBytes(b)]

\* base64.b64encode
RECURSIVE B64Encode(_)
B64Encode(b) ==
    IF Len(b) = 0 THEN <<>>
    ELSE IF Len(b) = 1 THEN <<b[1] \div 4, (b[1] % 4) * 16, 64, 64>>
    ELSE IF Len(b) = 2
    THEN <<b[1] \div 4, (b[1] % 4) * 16 + (b[2] \div 16), (b[2] % 16) * 4, 64>>
    ELSE <<b[1] \div 4, (b[1] % 4) * 16 + (b[2] \div 16),
           (b[2] % 16) * 4 + (b[3] \div 64), b[3] % 64>>
         \o B64Encode(SubSeq(b, 4, Len(b)))

\* binascii.a2b_base64 without strict mode: characters outside the alphabet
\* are skipped, a complete pad sequence ends the input, and data characters
\* left over at the end of the input are an error.
RECURSIVE B64Scan(_, _, _, _, _, _)
B64Scan(text, i, quad_pos, leftchar, pads, out) ==
    IF i > Len(text)
    THEN [exc |-> IF quad_pos = 0 THEN "ok" ELSE "binascii.Error", v |-> out]
    ELSE LET c == text[i] IN
         IF c = 64
         THEN IF quad_pos >= 2 /\ quad_pos + pads + 1 >= 4
              THEN [exc |-> "ok", v |-> out]
              ELSE B64Scan(text, i + 1, quad_pos, leftchar,
                           IF quad_pos >= 2 THEN pads + 1 ELSE pads, out)
         ELSE IF c > 64
         THEN B64Scan(text, i + 1, quad_pos, leftchar, pads, out)
         ELSE IF quad_pos = 0
         THEN B64Scan(text, i + 1, 1, c, 0, out)
         ELSE IF quad_pos = 1
         THEN B64Scan(text, i + 1, 2, c % 16, 0, Append(out, leftchar * 4 + (c \div 16)))
         ELSE IF quad_pos = 2
         THEN B64Scan(text, i + 1, 3, c % 4, 0, Append(out, leftchar * 16 + (c \div 4)))
         ELSE B64Scan(text, i + 1, 0, 0, 0, Append(out, leftchar * 64 + c))

\* base64.b64decode
B64Decode(text) == B64Scan(text, 1, 0, 0, 0, <<>>)

\* Bitwise exclusive or of two bytes.
RECURSIVE Xor(_, _, _)
Xor(a, b, bits) ==
    IF bits = 0 THEN 0
    ELSE ((a + b) % 2) + 2 * Xor(a \div 2, b \div 2, bits - 1)

\* The AES block function under `key`.  The cipher itself is outside the
\* repository; the model takes a fixed function of key and block in its
\* place.
AESBlock(key, block) ==
    [i \in 1..iv_size |-> (block[i] * 3 + key[i] + key[i + iv_size] + i) % 256]

\* modes.CFB: each segment is xored with the AES image of the previous
\* ciphertext segment, the first with the image of the IV.
RECURSIVE CFBEncrypt(_, _, _)
CFBEncrypt(key, prev, data) ==
    IF data = <<>> THEN <<>>
    ELSE LET n == IF Len(data) < iv_size THEN Len(data) ELSE iv_size
             ks == AESBlock(key, prev)
             c == [i \in 1..n |-> Xor(data[i], ks[i], 8)]
         IN c \o CFBEncrypt(key, c, SubSeq(data, n + 1, Len(data)))

RECURSIVE CFBDecrypt(_, _, _)
CFBDecrypt(key, prev, data) ==
    IF data = <<>> THEN <<>>
    ELSE LET n == IF Len(data) < iv_size THEN Len(data) ELSE iv_size
             ks == AESBlock(key, prev)
             c == SubSeq(data, 1, n)
         IN [i \in 1..n |-> Xor(c[i], ks[i], 8)]
            \o CFBDecrypt(key, c, SubSeq(data, n + 1, Len(data)))

\* padding.PKCS7(128).padder(): n bytes of value n up to the next block.
PKCS7Pad(data) ==
    LET n == iv_size - (Len(data) % iv_size) IN data \o [i \in 1..n |-> n]

\* padding.PKCS7(128).unpadder(): ValueError unless the data is whole
\* blocks ending in n bytes of value n, 1 <= n <= 16.
PKCS7Unpad(data) ==
    IF Len(data) = 0 \/ Len(data) % iv_size # 0
    THEN [exc |-> "ValueError", v |-> <<>>]
    ELSE LET n == data[Len(data)] IN
         IF n < 1 \/ n > iv_size
            \/ \E i \in (Len(data) - n + 1)..Len(data) : data[i] # n
         THEN [exc |-> "ValueError", v |-> <<>>]
         ELSE [exc |-> "ok", v |-> SubSeq(data, 1, Len(data) - n)]

\* The user codes of the model as base64 characters and as bytes.
Chars == ("ab12" :> <<26, 27, 53, 54>>) @@ ("zz99" :> <<51, 51, 61, 61>>)

\* The characters of a text argument: a str of the model or a character
\* sequence.
CharsOf(x) == IF x.t = "str" THEN (IF x.v = "" THEN <<>> ELSE Chars[x.v]) ELSE x.v

\* An except clause that names ValueError instead of Exception.
CaughtByValueError == {"ValueError", "binascii.Error", "UnicodeDecodeError"}

\* The exception classes `except Exception` catches: every class the two
\* try blocks can raise derives from Exception.
CaughtByException ==
    {"TypeError", "KeyError", "AttributeError", "ValueError", "binascii.Error",
     "UnicodeDecodeError"}

\* try: body / except Exception as e: print(e); return None
\*   value   what the call returns
\*   raised  the exception that leaves the call, "None" when none does
\*   logged  the exception the except clause printed, "None" when none
TryReturnNone(body) ==
    IF body.exc = "ok"
    THEN [value |-> body.v, raised |-> "None", logged |-> "None"]
    ELSE IF body.exc \in CaughtByException
    THEN [value |-> PyNone, raised |-> "None", logged |-> body.exc]
    ELSE [value |-> PyNone, raised |-> body.exc, logged |-> "None"]

\* The try block of encrypted_cookie_data, with iv the value of
\* os.urandom(16).
EncryptBody(se, iv) ==
    IF "user_code" \notin DOMAIN se
    THEN [exc |-> "KeyError", v |-> PyNone]          \* self.session["user_code"]
    ELSE IF ~HasPKCS7(padding)
    THEN [exc |-> "AttributeError", v |-> PyNone]    \* padding.PKCS7
    ELSE IF se.user_code.t # "str"
    THEN [exc |-> "AttributeError", v |-> PyNone]    \* None.encode
    ELSE IF ~AESKeyOk(KeyBytes)
    THEN [exc |-> "ValueError", v |-> PyNone]
    ELSE [exc |-> "ok",
          v |-> PyChars(B64Encode(iv \o CFBEncrypt(KeyBytes, iv,
                                                   PKCS7Pad(Utf8[se.user_code.v]))))]

encrypted_cookie_data(se, iv) == TryReturnNone(EncryptBody(se, iv))

\* The try block of decrypt_cookie_data.  The IV is decoded from the first
\* iv_size characters of the text and the ciphertext from the rest.
DecryptBody(x) ==
    IF x.t \notin {"str", "chars"}
    THEN [exc |-> "TypeError", v |-> PyNone]         \* None[:iv_size]
    ELSE LET text == CharsOf(x)
             iv == B64Decode(Prefix(text, iv_size))
             ciphertext ==
                 B64Decode(IF Len(text) <= iv_size THEN <<>>
                           ELSE SubSeq(text, iv_size + 1, Len(text)))
         IN IF iv.exc # "ok" THEN [exc |-> iv.exc, v |-> PyNone]
            ELSE IF ciphertext.exc # "ok" THEN [exc |-> ciphertext.exc, v |-> PyNone]
            ELSE IF ~AESKeyOk(KeyBytes) \/ Len(iv.v) # iv_size
            THEN [exc |-> "ValueError", v |-> PyNone] \* Cipher(AES(key), CFB(iv))
            ELSE IF ~HasPKCS7(padding)
            THEN [exc |-> "AttributeError", v |-> PyNone]
            ELSE LET unpadded_data ==
                         PKCS7Unpad(CFBDecrypt(KeyBytes, iv.v, ciphertext.v))
                 IN IF unpadded_data.exc # "ok"
                    THEN [exc |-> unpadded_data.exc, v |-> PyNone]
                    ELSE Utf8Decode(unpadded_data.v)

decrypt_cookie_data(x) == TryReturnNone(DecryptBody(x))

\* Values of os.urandom(16) the model draws.
IVs ==
    {[i \in 1..iv_size |-> 0], [i \in 1..iv_size |-> i], [i \in 1..iv_size |-> 250 - i]}

\* The wire format base64(IV followed by ciphertext) for a user code.
WireToken(code, iv) ==
    PyChars(B64Encode(iv \o CFBEncrypt(KeyBytes, iv, PKCS7Pad(Utf8[code]))))

\* Texts handed to decrypt_cookie_data: no cookie, the empty text,
\* "not-a-valid-token", "AAAA", "AAA", twenty alphabet characters, a raw
\* user code, and a text in the wire format.
CookieTexts ==
    {PyNone, PyChars(<<>>),
     PyChars(<<39, 40, 45, 65, 26, 65, 47, 26, 37, 34, 29, 65, 45, 40, 36, 30, 39>>),
     PyChars(<<0, 0, 0, 0>>), PyChars(<<0, 0, 0>>),
     PyChars([i \in 1..20 |-> i]),
     PyText("ab12"),
     WireToken("ab12", [i \in 1..iv_size |-> i])}

(* ---------------------------------------------------------------------- *)
(* Identity cookie: the cookie part of verify_user_type                    *)
(* ---------------------------------------------------------------------- *)

\* IndexView with the three test-cookie helpers of the session as methods.
IndexViewWithTestCookie ==
    {"reload_cache", "init_context", "verify_form_data", "verify_user_type",
     "decrypt_cookie_data", "encrypted_cookie_data", "dispatch", "get", "post",
     "set_test_cookie", "test_cookie_worked", "delete_test_cookie"}

\* The methods of an IndexView instance the cookie code could call: the def
\* statements of the class.  set_test_cookie, test_cookie_worked and
\* delete_test_cookie are methods of request.session; neither IndexView nor
\* django.views.View defines them.
IndexViewMethods ==
    {"reload_cache", "init_context", "verify_form_data", "verify_user_type",
     "decrypt_cookie_data", "encrypted_cookie_data", "dispatch", "get", "post"}

\* self.<name>() finds a method; otherwise the call raises AttributeError.
HasMethod(name) == name \in IndexViewMethods

\* The unique_code values of the CustomUser rows.
CustomUsers == {UserCode}

\* bool(x) of a str, a character sequence or None.
TruthyText(x) == IF x.t = "chars" THEN x.v # <<>> ELSE Truthy(x)

\* init_context, the session values it normalises.
InitContext(se) ==
    [se EXCEPT !.cookie_is_set = IF Truthy(@) THEN @ ELSE PyNone,
               !.cookie_consent = IF @.t = "bool" THEN @ ELSE PyNone]

\* verify_user_type from its first line to the "Validate stored cookies"
\* block: the session it leaves, context["new_user"], context["cookie_data"]
\* and the exception it raises, "ok" for none.  worked is what
\* test_cookie_worked() returns and iv what os.urandom(16) returns, where
\* the code gets that far.
VerifyCookies(se, method, allow_cookies, cookie, worked, iv) ==
    LET user_code == se.user_code
        issue == /\ Truthy(user_code)
                 /\ ~Truthy(se.cookie_is_set)
                 /\ Truthy(se.cookie_consent)
        withdraw == Truthy(user_code) /\ ~issue /\ Truthy(se.cookie_is_set)
        raise == [exc |-> "AttributeError", session |-> se,
                  new_user |-> ~Truthy(user_code), cookie_data |-> PyNone]
    IN IF issue /\ ~HasMethod("set_test_cookie") THEN raise
       ELSE IF withdraw /\ ~HasMethod("delete_test_cookie") THEN raise
       ELSE LET se1 == IF issue THEN [se EXCEPT !.cookie_is_set = PyBool(TRUE)]
                       ELSE IF withdraw THEN [se EXCEPT !.cookie_is_set = PyBool(FALSE)]
                       ELSE se
                se2 == IF method = "POST" /\ allow_cookies.t # "none"
                       THEN [se1 EXCEPT !.cookie_consent = PyBool(Truthy(allow_cookies))]
                       ELSE se1
                cookie_data == IF issue THEN encrypted_cookie_data(se, iv).value
                               ELSE PyNone
                validate == ~Truthy(se2.cookie_is_set) /\ TruthyText(cookie)
                custom_user_exists == cookie.t = "str" /\ cookie.v \in CustomUsers
            IN IF validate /\ ~HasMethod("test_cookie_worked") THEN raise
               ELSE IF validate /\ worked
               THEN [exc |-> "ok",
                     session |-> [se2 EXCEPT !.user_code =
                                      IF custom_user_exists THEN cookie ELSE PyNone],
                     new_user |-> ~custom_user_exists,
                     cookie_data |-> cookie_data]
               ELSE [exc |-> "ok", session |-> se2,
                     new_user |-> validate \/ ~Truthy(user_code),
                     cookie_data |-> cookie_data]

\* What a call or a request of the cookie model leaves behind.
\*   op       "encrypted_cookie_data", "decrypt_cookie_data" or "request"
\*   arg      the user code sealed, the text opened, the cookie presented
\*   iv       the IV drawn by encrypted_cookie_data
\*   result   value returned, exception raised, exception logged
\*   prev     op, arg, iv and value of the call before this one
\*   outcome  "ok" or the exception that ended the request
\*   new_user context["new_user"]
\*   before   session["user_code"] when the request arrived
CookieReport(op, arg, iv, result, prev, outcome, new_user, before) ==
    [op |-> op, arg |-> arg, iv |-> iv, result |-> result, prev |-> prev,
     outcome |-> outcome, new_user |-> new_user, before |-> before]

NoResult == [value |-> PyNone, raised |-> "None", logged |-> "None"]

\* The call before the next one.
Previous == [op |-> req.op, arg |-> req.arg, iv |-> req.iv, value |-> req.result.value]

\* A visitor without identity or the signed-up user, before any cookie
\* consent.
InitCookie ==
    /\ store = <<>>
    /\ cache = EmptyCache
    /\ media = NoMedia
    /\ requests = 0
    /\ \E user_code \in {PyNone, PyText(UserCode)} :
           session = [user_code |-> user_code, current_header |-> PyNone,
                      cookie_is_set |-> PyNone, cookie_consent |-> PyNone]
    /\ req = CookieReport("init", PyNone, <<>>, NoResult,
                          [op |-> "init", arg |-> PyNone, iv |-> <<>>, value |-> PyNone],
                          "ok", FALSE, PyNone)

\* self.encrypted_cookie_data() with os.urandom(16) = iv
EncryptedCookieData(iv) ==
    /\ Tick
    /\ UNCHANGED <<store, cache, session, media>>
    /\ req' = CookieReport("encrypted_cookie_data", session.user_code, iv,
                           encrypted_cookie_data(session, iv), Previous,
                           "ok", FALSE, session.user_code)

\* self.decrypt_cookie_data(text)
DecryptCookieData(text) ==
    /\ Tick
    /\ UNCHANGED <<store, cache, session, media>>
    /\ req' = CookieReport("decrypt_cookie_data", text, <<>>,
                           decrypt_cookie_data(text), Previous,
                           "ok", FALSE, session.user_code)

\* The values of the autoficate-key cookie a client sends: none, the code of
\* the user, a code of no user, a text in the wire format for the user.
CookieValues ==
    {PyNone, PyText(UserCode), PyText("zz99"),
     WireToken(UserCode, [i \in 1..iv_size |-> i])}

\* POST["allow_cookies"]: absent, "on", "".
AllowCookies == {PyNone, PyText("on"), PyText("")}

\* A GET or a POST without a submit button, with the cookie the client
\* sends: dispatch (init_context, verify_form_data, verify_user_type), the
\* handler, which does nothing, and page_renderer.  A request ended by an
\* exception leaves the session as it arrived.
CookieRequest(method, allow_cookies, cookie, worked, iv) ==
    /\ Tick
    /\ UNCHANGED <<store, media>>
    /\ LET se == InitContext(session)
           form == VerifyFormData(store, se)
           v == VerifyCookies(se, method, allow_cookies, cookie, worked, iv)
           c == IF Truthy(se.user_code) THEN VerifyUserType(store, cache, se)
                ELSE [cache |-> cache, result |-> "None"]
           exc == IF form # "ok" THEN form
                  ELSE IF v.exc # "ok" THEN v.exc
                  ELSE IF Raised(c.result) THEN c.result
                  ELSE "ok"
       IN /\ cache' = IF exc = "ok" THEN c.cache ELSE cache
          /\ session' = IF exc = "ok" THEN v.session ELSE session
          /\ req' = CookieReport("request", cookie, <<>>, NoResult, Previous, exc,
                                 IF exc = "ok" THEN v.new_user ELSE FALSE,
                                 session.user_code)

NextCookie ==
    \/ \E iv \in IVs : EncryptedCookieData(iv)
    \/ \E text \in CookieTexts : DecryptCookieData(text)
    \/ \E method \in {"GET", "POST"}, allow_cookies \in AllowCookies,
          cookie \in CookieValues, worked \in BOOLEAN, iv \in IVs :
           CookieRequest(method, allow_cookies, cookie, worked, iv)

SpecCookie == InitCookie /\ [][NextCookie]_vars

(* ---------------------------------------------------------------------- *)
(* Claims on the identity cookie                                           *)
(* ---------------------------------------------------------------------- *)

\* The texts in the wire format for the users of the model.
IssuedTokens == {WireToken(c, iv) : c \in CustomUsers, iv \in IVs}

\* C11: for a valid user code c, encrypted_cookie_data returns
\* base64(IV followed by ciphertext) and decrypt_cookie_data applied to that
\* token returns c.
C11_RoundTrip ==
    (req.op = "encrypted_cookie_data" /\ req.arg.t = "str" /\ req.arg.v \in CustomUsers)
    => /\ PyEq(req.result.value, WireToken(req.arg.v, req.iv))
       /\ PyEq(decrypt_cookie_data(req.result.value).value, req.arg)

\* C12: two calls of encrypted_cookie_data for the same user code, each
\* with its own IV, return two different tokens, neither of them None, and
\* both decrypt to the user code.
C12_FreshTokens ==
    (/\ req.op = "encrypted_cookie_data"
     /\ req.prev.op = "encrypted_cookie_data"
     /\ req.arg.t = "str" /\ req.arg.v \in CustomUsers
     /\ PyEq(req.prev.arg, req.arg)
     /\ req.prev.iv # req.iv)
    => /\ req.result.value.t # "none"
       /\ req.prev.value.t # "none"
       /\ ~PyEq(req.result.value, req.prev.value)
       /\ PyEq(decrypt_cookie_data(req.result.value).value, req.arg)
       /\ PyEq(decrypt_cookie_data(req.prev.value).value, req.arg)

\* C13: decrypt_cookie_data returns None and raises nothing for every input
\* that is not a well-formed issued token.
C13_DecryptFailsSoft ==
    (req.op = "decrypt_cookie_data" /\ req.arg \notin IssuedTokens)
    => /\ req.result.value = PyNone
       /\ req.result.raised = "None"

\* C13 witness: "not-a-valid-token" was opened; the base64 error was caught
\* and None returned.
C13_Witness ==
    /\ req.op = "decrypt_cookie_data"
    /\ req.arg.t = "chars" /\ Len(req.arg.v) = 17
    /\ req.result.value = PyNone
    /\ req.result.logged = "binascii.Error"

\* C14: a request whose cookie value belongs to no existing user is handled
\* as a new visitor: no error, new_user true, no user code in the session at
\* the end of the request.
C14_UnknownCookieIsNewVisitor ==
    (/\ req.op = "request"
     /\ TruthyText(req.arg)
     /\ req.arg \notin IssuedTokens
     /\ ~(req.arg.t = "str" /\ req.arg.v \in CustomUsers))
    => /\ req.outcome = "ok"
       /\ req.new_user
       /\ ~Truthy(session.user_code)

\* C15: a request gives the session a user code it did not have only if
\* its cookie is an issued token that decrypts to the code of an existing
\* user; a cookie holding a raw user code gives a visitor no identity.
C15_OnlyIssuedTokenEstablishes ==
    /\ (/\ req.op = "request"
        /\ Truthy(session.user_code)
        /\ ~PyEq(session.user_code, req.before))
       => /\ req.arg \in IssuedTokens
          /\ PyEq(decrypt_cookie_data(req.arg).value, session.user_code)
    /\ (/\ req.op = "request"
        /\ req.arg.t = "str"
        /\ ~Truthy(req.before))
       => ~Truthy(session.user_code)

\* C15 witness: a visitor without identity presented the raw code of an
\* existing user and still has no user code.
C15_Witness ==
    /\ req.op = "request"
    /\ req.arg = PyText(UserCode)
    /\ ~Truthy(req.before)
    /\ ~Truthy(session.user_code)

(* ---------------------------------------------------------------------- *)
(* Export: render_and_zip_images and the export_images request             *)
(* ---------------------------------------------------------------------- *)

\* The names a function body of views.py with the export helpers as module
\* functions would find.
ModuleGlobalsWithHelpers ==
    {"check_time", "get_error_message", "handle_exception", "exception_handler",
     "page_renderer", "IndexView", "Custom404View", "SignupView", "LogoutView",
     "render_and_zip_images", "hex_to_rgb_with_alpha", "render_text_on_image",
     "save_image_as_png", "save_image_as_jpeg", "create_pdf", "zip_files",
     "delete_temp_folder"}

\* The names defined at the top level of views.py.  render_and_zip_images
\* and its helpers are def statements in the body of class IndexView; a
\* class body is no enclosing scope of the functions defined in it, so a
\* bare use of one of these names in a function looks it up among the
\* module's names.
ModuleGlobals ==
    {"check_time", "get_error_message", "handle_exception", "exception_handler",
     "page_renderer", "IndexView", "Custom404View", "SignupView", "LogoutView"}

\* A bare name resolves; otherwise its use raises NameError.
Resolves(name) == name \in ModuleGlobals

\* A scratch folder that does not depend on the user code.
TempFolderShared(user_code) == "media/tmp"

\* os.path.join(settings.MEDIA_ROOT, user_code)
TempFolder(user_code) == "media/" \o user_code

\* os.path.join(settings.MEDIA_ROOT, f"{user_code}_output.zip")
ZipPath(user_code) == "media/" \o user_code \o "_output.zip"

\* The font files under STATIC_ROOT/fonts.
InstalledFonts == {"arial"}

\* DataItemSetModel.search_font
search_font(font_name) ==
    IF font_name \in InstalledFonts THEN PyText("fonts/" \o font_name \o ".ttf")
    ELSE PyNone

\* grouped_data_items: the key of a row is data_item.item_set.index, the
\* bound method str.index of that row's own string, which equals no other
\* row's key.  Every row of the user is a group of its own, in queryset
\* order.
RECURSIVE GroupedDataItems(_, _, _)
GroupedDataItems(st, user_code, i) ==
    IF i > Len(st) THEN <<>>
    ELSE (IF st[i].user_code = user_code THEN <<(<<i>>)>> ELSE <<>>)
         \o GroupedDataItems(st, user_code, i + 1)

\* One pass of the loop over grouped_data_items: the exception it raises.
\* hex_to_rgb_with_alpha and render_text_on_image are bare names; past them
\* render_text_on_image reads data_item.font_name of the list it was handed.
RenderIndex(data_items_at_index) ==
    IF ~Resolves("hex_to_rgb_with_alpha") THEN "NameError"
    ELSE IF ~Resolves("render_text_on_image") THEN "NameError"
    ELSE "AttributeError"

\* render_and_zip_images with the image lookup after os.makedirs.
RenderAndZipFolderFirst(st, md, user_code, output_format) ==
    LET made == [md EXCEPT !.files = @ \cup {TempFolder(user_code)}] IN
    IF md.image_models = 0
    THEN [exc |-> "DoesNotExist", media |-> made, outputs |-> <<>>, zip_path |-> PyNone]
    ELSE [exc |-> "NameError", media |-> made, outputs |-> <<>>, zip_path |-> PyNone]

\* render_and_zip_images(user_code, output_format): the exception it raises
\* ("ok" for none), the media it leaves, the outputs it rendered, one per
\* pass of the loop, and the path it returns.
RenderAndZip(st, md, user_code, output_format) ==
    IF md.image_models = 0          \* ImageModel.objects.get(...)
    THEN [exc |-> "DoesNotExist", media |-> md, outputs |-> <<>>, zip_path |-> PyNone]
    ELSE LET made == [md EXCEPT !.files = @ \cup {TempFolder(user_code)}]
             grouped_data_items == GroupedDataItems(st, user_code, 1)
         IN IF grouped_data_items # <<>>
            THEN [exc |-> RenderIndex(grouped_data_items[1]), media |-> made,
                  outputs |-> <<>>, zip_path |-> PyNone]
            ELSE IF ~Resolves("zip_files")
            THEN [exc |-> "NameError", media |-> made, outputs |-> <<>>,
                  zip_path |-> PyNone]
            ELSE LET zipped == [made EXCEPT !.files = @ \cup {ZipPath(user_code)},
                                            !.archive = {}]
                 IN IF ~Resolves("delete_temp_folder")
                    THEN [exc |-> "NameError", media |-> zipped, outputs |-> <<>>,
                          zip_path |-> PyNone]
                    ELSE [exc |-> "ok",
                          media |-> [zipped EXCEPT !.files = @ \ {TempFolder(user_code)}],
                          outputs |-> <<>>,
                          zip_path |-> PyText(ZipPath(user_code))]

\* ExportForm.export_format choices.
EXPORT_CHOICES == {"pdf", "png", "jpeg"}

\* Output kinds asked for: the three choices and one that is none of them.
OutputFormats == EXPORT_CHOICES \cup {"gif"}

\* What an export leaves behind.
\*   op        "render_and_zip_images" (the call) or "export_images" (the request)
\*   arg       the output kind asked for
\*   ran       the handler was reached
\*   outcome   "ok" or the exception that ended the call or request
\*   outputs   the outputs rendered
\*   zip_path  the path render_and_zip_images returned
\*   returned  the archive members sent to the client, None when the
\*             response carries no archive
\*   before    media when the call or request began
ExportReport(op, arg, ran, outcome, outputs, zip_path, returned, before) ==
    [op |-> op, arg |-> arg, ran |-> ran, outcome |-> outcome, outputs |-> outputs,
     zip_path |-> zip_path, returned |-> returned, before |-> before]

\* A row of DataItemSetModel with the font it is drawn in.
ExportRow(h, l, font_name) ==
    [user_code |-> UserCode, item_set_heading |-> h, item_set |-> PyStr(l),
     position_x |-> 0, font_name |-> font_name]

\* The user's item sets when exporting: none, A, or A and B.
ExportStores ==
    {<<>>}
    \cup {<<ExportRow("A", l, f)>> : l \in ItemLists, f \in {"arial", "comic"}}
    \cup {<<ExportRow("A", l, f), ExportRow("B", k, g)>> :
              l \in ItemLists, f \in {"arial", "comic"},
              k \in ItemLists, g \in {"arial", "comic"}}

\* The signed-up user with some item sets, with or without an uploaded
\* image.
InitExport ==
    /\ store \in ExportStores
    /\ cache = EmptyCache
    /\ session = [user_code |-> PyText(UserCode), current_header |-> PyNone]
    /\ \E n \in {0, 1} : media = [NoMedia EXCEPT !.image_models = n]
    /\ requests = 0
    /\ req = ExportReport("init", "", FALSE, "ok", <<>>, PyNone, PyNone, NoMedia)

\* IndexView.render_and_zip_images(user_code, output_format)
RenderAndZipImages(output_format) ==
    /\ Tick
    /\ UNCHANGED <<store, cache, session>>
    /\ LET r == RenderAndZip(store, media, session.user_code.v, output_format) IN
       /\ media' = r.media
       /\ req' = ExportReport("render_and_zip_images", output_format, TRUE, r.exc,
                              r.outputs, r.zip_path, PyNone, media)

\* POST submit=export_images with export_format of the form.  The handler
\* calls render_and_zip_images by its bare name, always with "png", builds
\* an HttpResponse from the archive, unlinks the archive and does not return
\* the response.
ExportImages(export_format) ==
    /\ Tick
    /\ UNCHANGED <<store, session>>
    /\ LET d == Dispatch(store, cache, session)
           r == RenderAndZip(store, media, session.user_code.v, "png")
           exc == IF d.exc # "ok" THEN d.exc
                  ELSE IF export_format \notin EXPORT_CHOICES THEN "ok"
                  ELSE IF ~Resolves("render_and_zip_images") THEN "NameError"
                  ELSE r.exc
           called == /\ d.exc = "ok"
                     /\ export_format \in EXPORT_CHOICES
                     /\ Resolves("render_and_zip_images")
       IN /\ cache' = d.cache
          /\ media' = IF ~called THEN media
                      ELSE IF r.exc # "ok" THEN r.media
                      ELSE [r.media EXCEPT !.files = @ \ {ZipPath(session.user_code.v)}]
          /\ req' = ExportReport("export_images", export_format, d.exc = "ok", exc,
                                 IF called THEN r.outputs ELSE <<>>,
                                 IF called THEN r.zip_path ELSE PyNone,
                                 PyNone, media)

NextExport ==
    \/ \E output_format \in OutputFormats : RenderAndZipImages(output_format)
    \/ \E export_format \in OutputFormats : ExportImages(export_format)

SpecExport == InitExport /\ [][NextExport]_vars

(* ---------------------------------------------------------------------- *)
(* Claims on the export                                                    *)
(* ---------------------------------------------------------------------- *)

\* The stored list of row r.
ItemsOf(r) == LiteralEval(store[r].item_set)

\* The length of the longest stored list, 0 without item sets.
LongestLen ==
    IF store = <<>> THEN 0
    ELSE CHOOSE n \in 0..(MaxItems + 1) :
             /\ \E r \in DOMAIN store : Len(ItemsOf(r)) = n
             /\ \A r \in DOMAIN store : Len(ItemsOf(r)) <= n

\* What output i - 1 draws: the i-th item of every item set that has one.
DrawnAt(i) == {ItemsOf(r)[i] : r \in {q \in DOMAIN store : Len(ItemsOf(q)) >= i}}

\* Every item set names an installed font.
FontsInstalled == \A r \in DOMAIN store : search_font(store[r].font_name) # PyNone

\* C16: render_and_zip_images produces one output per index below the
\* longest list length, and output i draws exactly the i-th item of every
\* item set that has more than i items.
C16_ExportGrouping ==
    (/\ req.op = "render_and_zip_images"
     /\ req.before.image_models = 1
     /\ req.arg \in EXPORT_CHOICES
     /\ FontsInstalled
     /\ LongestLen >= 1)
    => /\ req.outcome = "ok"
       /\ Len(req.outputs) = LongestLen
       /\ \A i \in 1..LongestLen : req.outputs[i] = DrawnAt(i)

\* C17: after render_and_zip_images, however it ended, the scratch
\* directory MEDIA_ROOT/<user_code> does not exist.
C17_ScratchRemoved ==
    (req.op = "render_and_zip_images")
    => TempFolder(User) \notin media.files

\* C18: an export request with a format of the form returns one zip whose
\* members are exactly output_index_{i}.<format> for the populated indices.
C18_ArchiveLayout ==
    (/\ req.op = "export_images"
     /\ req.ran
     /\ req.before.image_models = 1
     /\ req.arg \in EXPORT_CHOICES
     /\ FontsInstalled)
    => /\ req.outcome = "ok"
       /\ req.returned.t = "archive"
       /\ req.returned.v = {[index |-> i - 1, ext |-> req.arg] : i \in 1..LongestLen}

\* C19: without an image record render_and_zip_images fails with the
\* not-found error of the lookup and creates no scratch directory, no
\* output and no archive.
C19_NoImageFailsFirst ==
    (req.op = "render_and_zip_images" /\ req.before.image_models = 0)
    => /\ req.outcome = "DoesNotExist"
       /\ media = req.before
       /\ TempFolder(User) \notin media.files
       /\ ZipPath(User) \notin media.files
       /\ req.outputs = <<>>

\* C19 witness: the call was made for a user with item sets and no image
\* and ended in DoesNotExist with nothing under MEDIA_ROOT.
C19_Witness ==
    /\ req.op = "render_and_zip_images"
    /\ req.before.image_models = 0
    /\ store # <<>>
    /\ req.outcome = "DoesNotExist"
    /\ media.files = {}

\* C20: with a missing font or an output kind other than png, jpeg, pdf no
\* archive is produced or returned, whatever item sets the user has, and
\* the call of render_and_zip_images ends in an exception.
C20_NoPartialArchive ==
    (/\ req.op \in {"render_and_zip_images", "export_images"}
     /\ (req.arg \notin EXPORT_CHOICES \/ ~FontsInstalled))
    => /\ ZipPath(User) \notin media.files
       /\ req.zip_path = PyNone
       /\ req.returned = PyNone
       /\ (req.op = "render_and_zip_images" => req.outcome # "ok")

\* C20 witness: a user with an image and no item sets asked for "gif"; the
\* call raised and left no archive.
C20_Witness ==
    /\ req.op = "render_and_zip_images"
    /\ req.arg = "gif"
    /\ store = <<>>
    /\ req.before.image_models = 1
    /\ req.outcome = "NameError"
    /\ ZipPath(User) \notin media.files

(* ---------------------------------------------------------------------- *)
(* Two exports at once: render_and_zip_images step by step                 *)
(* ---------------------------------------------------------------------- *)

\* Two users exporting at the same time.
ExportUsers == {"ab12", "cd34"}

\* The calls in flight, one per user.
\*   pc        where the call stands: "idle", "get" (line 719), "makedirs"
\*             (723), "loop" (729-767), "zip" (769-776), "returned", "raised"
\*   outcome   "ok" or the exception that ended the call
\*   touched   the paths under MEDIA_ROOT the call created, read, archived
\*             or deleted
\*   zip_path  the path the call returned
Call(pc, outcome, touched, zip_path) ==
    [pc |-> pc, outcome |-> outcome, touched |-> touched, zip_path |-> zip_path]

\* The item sets of one user when two export: none or one.
RowsOf(u) == {<<>>} \cup {<<[ExportRow("A", l, "arial") EXCEPT !.user_code = u]>> :
                              l \in ItemLists}

\* Both users signed up, each with or without an image and item sets.  In
\* the runs of two exports media.image_models is the set of users that have
\* an ImageModel row and media.archive the members of the archives written,
\* each with the archive it is in.
InitConcurrent ==
    /\ \E a \in RowsOf("ab12"), b \in RowsOf("cd34") : store = a \o b
    /\ cache = EmptyCache
    /\ session = [u \in ExportUsers |->
                     [user_code |-> PyText(u), current_header |-> PyNone]]
    /\ \E withImage \in SUBSET ExportUsers :
           media = [NoMedia EXCEPT !.image_models = withImage]
    /\ requests = 0
    /\ req = [u \in ExportUsers |-> Call("idle", "ok", {}, PyNone)]

\* A call ended by an exception.
Raise(u, exc) == req' = [req EXCEPT ![u].pc = "raised", ![u].outcome = exc]

\* render_and_zip_images(user_code) is called for u.
StartExport(u) ==
    /\ req[u].pc \in {"idle", "returned", "raised"}
    /\ Tick
    /\ req' = [req EXCEPT ![u] = Call("get", "ok", {}, PyNone)]
    /\ UNCHANGED <<store, cache, session, media>>

\* image_model = ImageModel.objects.get(user__unique_code=user_code)
GetImageModel(u) ==
    /\ req[u].pc = "get"
    /\ IF u \notin media.image_models THEN Raise(u, "DoesNotExist")
       ELSE req' = [req EXCEPT ![u].pc = "makedirs"]
    /\ UNCHANGED <<store, cache, session, media, requests>>

\* os.makedirs(temp_folder, exist_ok=True)
MakeDirs(u) ==
    /\ req[u].pc = "makedirs"
    /\ media' = [media EXCEPT !.files = @ \cup {TempFolder(u)}]
    /\ req' = [req EXCEPT ![u].pc = "loop", ![u].touched = @ \cup {TempFolder(u)}]
    /\ UNCHANGED <<store, cache, session, requests>>

\* The grouping and the first pass of the loop over the groups.
RenderLoop(u) ==
    /\ req[u].pc = "loop"
    /\ LET grouped_data_items == GroupedDataItems(store, u, 1) IN
       IF grouped_data_items # <<>>
       THEN Raise(u, RenderIndex(grouped_data_items[1]))
       ELSE req' = [req EXCEPT ![u].pc = "zip"]
    /\ UNCHANGED <<store, cache, session, media, requests>>

\* zip_files(zip_path, temp_folder); delete_temp_folder(temp_folder);
\* return zip_path
ZipAndDelete(u) ==
    /\ req[u].pc = "zip"
    /\ IF ~Resolves("zip_files")
       THEN /\ Raise(u, "NameError")
            /\ media' = media
       ELSE LET inFolder == {f \in media.files : Prefix(f, Len(TempFolder(u)) + 1)
                                                     = TempFolder(u) \o "/"}
                zipped == [media EXCEPT
                              !.files = @ \cup {ZipPath(u)},
                              !.archive = {m \in @ : m.zip # ZipPath(u)}
                                          \cup {[zip |-> ZipPath(u), member |-> f] :
                                                    f \in inFolder}]
                used == {TempFolder(u), ZipPath(u)} \cup inFolder
            IN IF ~Resolves("delete_temp_folder")
               THEN /\ media' = zipped
                    /\ req' = [req EXCEPT ![u].pc = "raised",
                                          ![u].outcome = "NameError",
                                          ![u].touched = @ \cup used]
               ELSE /\ media' = [zipped EXCEPT !.files = (@ \ inFolder) \ {TempFolder(u)}]
                    /\ req' = [req EXCEPT ![u].pc = "returned",
                                          ![u].touched = @ \cup used,
                                          ![u].zip_path = PyText(ZipPath(u))]
    /\ UNCHANGED <<store, cache, session, requests>>

NextConcurrent ==
    \/ \E u \in ExportUsers : StartExport(u)
    \/ \E u \in ExportUsers : GetImageModel(u)
    \/ \E u \in ExportUsers : MakeDirs(u)
    \/ \E u \in ExportUsers : RenderLoop(u)
    \/ \E u \in ExportUsers : ZipAndDelete(u)

SpecConcurrent == InitConcurrent /\ [][NextConcurrent]_vars

\* C21: two exports for different user codes, interleaved at every step,
\* touch disjoint paths: no scratch directory, temporary file or archive
\* path of one is created, read, archived or deleted by the other, and every
\* archive member lies in the scratch directory of the archive's own user.
C21_ExportsDisjoint ==
    \A u \in ExportUsers : \A v \in ExportUsers \ {u} :
        /\ req[u].touched \cap req[v].touched = {}
        /\ TempFolder(u) \notin req[v].touched
        /\ ZipPath(u) \notin req[v].touched
        /\ \A m \in media.archive :
               m.zip = ZipPath(u)
               => Prefix(m.member, Len(TempFolder(u)) + 1) = TempFolder(u) \o "/"

\* C21 witness: both calls are in flight past os.makedirs, each with its own
\* scratch directory on disk.
C21_Witness ==
    /\ req["ab12"].pc = "loop"
    /\ req["cd34"].pc = "loop"
    /\ req["ab12"].touched = {TempFolder("ab12")}
    /\ req["cd34"].touched = {TempFolder("cd34")}
    /\ {TempFolder("ab12"), TempFolder("cd34")} \subseteq media.files

(* ---------------------------------------------------------------------- *)
(* Requests of a session that holds no user code                           *)
(* ---------------------------------------------------------------------- *)

\* A key the session does not hold: session.get(key) gives None and
\* session[key] raises KeyError.
KeyMissing == [t |-> "missing", v |-> <<>>]

\* self.session.get(key)
SessionGet(x) == IF x.t = "missing" THEN PyNone ELSE x

\* `if self.session["user_code"] != "":` ... `else: raise
\* SessionValuesNotFoundError`: the exception of the test, "ok" when the
\* guarded block is entered.
UserCodeGuard(se) ==
    IF se.user_code.t = "missing" THEN "KeyError"
    ELSE IF PyEq(se.user_code, PyText("")) THEN "SessionValuesNotFoundError"
    ELSE "ok"

\* dispatch for a session whose user code is falsy.  verify_form_data takes
\* its else branch and, with a current header, subscripts the session;
\* verify_user_type skips the cookie block and the reload.
DispatchNoCode(se) ==
    IF SessionGet(se.current_header).t # "none" /\ se.user_code.t = "missing"
    THEN "KeyError"
    ELSE "ok"

\* Rows of the user .filter(user_code=<session value>) selects; filtering
\* on None selects the rows whose user_code is NULL, and the column is NOT
\* NULL.
RowsOfSession(st, se) ==
    {i \in 1..Len(st) : se.user_code.t = "str" /\ st[i].user_code = se.user_code.v}

\* add_blank_item_heading past the guard: no blank row of user_code None
\* exists, so a DataItemSetModel with user_code None is saved.
AddBlankOutcome(st, se) ==
    IF UserCodeGuard(se) # "ok" THEN UserCodeGuard(se)
    ELSE IF se.user_code.t = "none" THEN "IntegrityError"
    ELSE "ok"

\* DataItemSetModel.objects.get(user_code=<session value>, ...) or
\* .filter(user_code=...).get(...) past the guard.
GetOutcome(st, se) ==
    IF UserCodeGuard(se) # "ok" THEN UserCodeGuard(se)
    ELSE IF RowsOfSession(st, se) = {} THEN "ObjectDoesNotExist"
    ELSE "ok"

\* update_inspector_data tests self.session.get("user_code") != "" and then
\* subscripts the session inside the guarded block.
UpdateOutcome(st, se) ==
    IF PyEq(SessionGet(se.user_code), PyText("")) THEN "SessionValuesNotFoundError"
    ELSE IF se.user_code.t = "missing" THEN "KeyError"
    ELSE IF RowsOfSession(st, se) = {} THEN "ObjectDoesNotExist"
    ELSE "ok"

\* store_excel_to_model with a sheet of one column: the first instance.save()
\* of the loop, rolled back with the atomic block.
StoreExcelOutcome(st, se) ==
    IF UserCodeGuard(se) # "ok" THEN UserCodeGuard(se)
    ELSE IF se.user_code.t = "none" THEN "IntegrityError"
    ELSE "ok"

\* render_preview_url: without an image_url it returns at once; with one,
\* the guard and then ImageModel.objects.get(user__unique_code=...).
RenderPreviewOutcome(md, se) ==
    IF PyEq(IF se.image_url.t = "missing" THEN PyText("") ELSE se.image_url,
            PyText(""))
    THEN "ok"
    ELSE IF UserCodeGuard(se) # "ok" THEN UserCodeGuard(se)
    ELSE IF se.user_code.t = "none" \/ md.image_models = 0 THEN "ObjectDoesNotExist"
    ELSE "ok"

\* What a request of such a session leaves behind: the operation, whether
\* its handler was reached, the exception that ended it ("ok" for none) and
\* the store and cache when it arrived.
NoCodeReport(op, ran, outcome, before) ==
    [op |-> op, ran |-> ran, outcome |-> outcome, before |-> before]

\* Sessions without a user code: a fresh or flushed session holds no keys;
\* verify_user_type stores None for an unknown cookie (line 518) and leaves
\* the other keys as they were.
NoCodeSessions ==
    {[user_code |-> KeyMissing, current_header |-> KeyMissing, image_url |-> KeyMissing]}
    \cup {[user_code |-> PyNone, current_header |-> h, image_url |-> u] :
              h \in {PyNone, PyText("A")},
              u \in {KeyMissing, PyNone, PyText("https://ik/main/a.png")}}

\* Item sets of the signed-up user ab12 are in the store; the requests come
\* from a session without a user code.
InitNoCode ==
    /\ store \in {<<>>} \cup {<<ExportRow("A", l, "arial")>> : l \in ItemLists}
    /\ cache = EmptyCache
    /\ session \in NoCodeSessions
    /\ media = NoMedia
    /\ requests = 0
    /\ req = NoCodeReport("init", FALSE, "ok", [store |-> store, cache |-> cache])

\* What a request of the session leaves behind: dispatch, then the handler,
\* which ends in `outcome`.  No handler gets as far as a write that succeeds.
NoCodeResult(op, outcome) ==
    IF DispatchNoCode(session) # "ok"
    THEN NoCodeReport(op, FALSE, DispatchNoCode(session),
                      [store |-> store, cache |-> cache])
    ELSE NoCodeReport(op, TRUE, outcome, [store |-> store, cache |-> cache])

\* POST submit_add=add_blank_item_heading
NoCodeAddBlank ==
    /\ Tick
    /\ UNCHANGED <<store, cache, session, media>>
    /\ req' = NoCodeResult("add_blank_item_heading", AddBlankOutcome(store, session))

\* POST submit_remove=inspector_header_item_remove
NoCodeRemove ==
    /\ Tick
    /\ UNCHANGED <<store, cache, session, media>>
    /\ req' = NoCodeResult("inspector_header_item_remove", GetOutcome(store, session))

\* POST submit=update_inspector_data
NoCodeUpdate ==
    /\ Tick
    /\ UNCHANGED <<store, cache, session, media>>
    /\ req' = NoCodeResult("update_inspector_data", UpdateOutcome(store, session))

\* POST submit=load_all_inspector_data
NoCodeLoadAll ==
    /\ Tick
    /\ UNCHANGED <<store, cache, session, media>>
    /\ req' = NoCodeResult("load_all_inspector_data", GetOutcome(store, session))

\* POST submit=load_excel_submit with a valid sheet
NoCodeLoadExcel ==
    /\ Tick
    /\ UNCHANGED <<store, cache, session, media>>
    /\ req' = NoCodeResult("load_excel_submit", StoreExcelOutcome(store, session))

\* self.render_preview_url()
NoCodeRenderPreview ==
    /\ Tick
    /\ UNCHANGED <<store, cache, session, media>>
    /\ req' = NoCodeReport("render_preview_url", TRUE,
                           RenderPreviewOutcome(media, session),
                           [store |-> store, cache |-> cache])

NextNoCode ==
    \/ NoCodeAddBlank
    \/ NoCodeRemove
    \/ NoCodeUpdate
    \/ NoCodeLoadAll
    \/ NoCodeLoadExcel
    \/ NoCodeRenderPreview

SpecNoCode == InitNoCode /\ [][NextNoCode]_vars

\* C22: an operation that needs the user code, run for a session without
\* one (key missing or value None), raises SessionValuesNotFoundError and
\* leaves the store and the cache as they were.
C22_NoCodeRaisesSessionError ==
    (req.op # "init" /\ req.ran)
    => /\ req.outcome = "SessionValuesNotFoundError"
       /\ store = req.before.store
       /\ cache = req.before.cache

(* ---------------------------------------------------------------------- *)
(* CustomUser: creations and saves, step by step                           *)
(* ---------------------------------------------------------------------- *)

\* Codes get_random_string(length=4, allowed_chars=...) can draw: a pool
\* small enough for two draws to coincide.
DrawnCodes == {"bcfg", "hk01", "mo23"}

\* Passwords set_password stores.
Passwords == {"", "pw1"}

\* The requests that save a CustomUser at the same time.
Savers == {"s1", "s2"}

\* A row of CustomUser; the primary key user_id is the row's position.
UserRow(code, password) == [unique_code |-> code, password |-> password]

\* A save in flight.
\*   pc        "idle", "save" (CustomUser.save entered), "write"
\*             (super().save() is next), "saved", "raised"
\*   pk        the row the instance was loaded from, 0 for a new instance
\*   instance  the fields of the instance in memory
\*   outcome   "ok" or the exception of super().save()
Saving(pc, pk, instance, outcome) ==
    [pc |-> pc, pk |-> pk, instance |-> instance, outcome |-> outcome]

\* No user yet, nothing in flight.
InitUsers ==
    /\ store = <<>>
    /\ cache = EmptyCache
    /\ session = [user_code |-> PyNone, current_header |-> PyNone]
    /\ media = NoMedia
    /\ requests = 0
    /\ req = [p \in Savers |-> Saving("idle", 0, UserRow("", ""), "ok")]

\* The UNIQUE constraint of unique_code no longer there.
NoUniqueConstraint(st, pk, code) == FALSE

\* unique_code = models.CharField(..., unique=True): the write of a row
\* whose code another row holds is refused.
UniqueViolation(st, pk, code) ==
    \E i \in DOMAIN st : i # pk /\ st[i].unique_code = code

\* CustomUser.objects.filter(unique_code=unique_code).exists()
CodeExists(st, code) == \E i \in DOMAIN st : st[i].unique_code = code

\* instance = CustomUser() / signup_form.save(): a new instance is saved
\* (name_signup, SignupView without a session user, create_user).
CreateUser(p, password) ==
    /\ req[p].pc \in {"idle", "saved", "raised"}
    /\ Tick
    /\ req' = [req EXCEPT ![p] = Saving("save", 0, UserRow("", password), "ok")]
    /\ UNCHANGED <<store, cache, session, media>>

\* CustomUser.objects.get(unique_code=...) followed by a save of the loaded
\* instance: the second save of name_signup, update_password and the signup
\* conversion (which set the e-mail and the password first).
ResaveUser(p, i, password) ==
    /\ req[p].pc \in {"idle", "saved", "raised"}
    /\ i \in DOMAIN store
    /\ Tick
    /\ req' = [req EXCEPT ![p] = Saving("save", i,
                                        [store[i] EXCEPT !.password = password], "ok")]
    /\ UNCHANGED <<store, cache, session, media>>

\* CustomUser.save, `if not self.unique_code:`: a code is drawn until the
\* store holds no user with it, and assigned.
GenerateCode(p, unique_code) ==
    /\ req[p].pc = "save"
    /\ req[p].instance.unique_code = ""
    /\ ~CodeExists(store, unique_code)
    /\ req' = [req EXCEPT ![p].pc = "write", ![p].instance.unique_code = unique_code]
    /\ UNCHANGED <<store, cache, session, media, requests>>

\* CustomUser.save with a code already assigned: the block is skipped.
KeepCode(p) ==
    /\ req[p].pc = "save"
    /\ req[p].instance.unique_code # ""
    /\ req' = [req EXCEPT ![p].pc = "write"]
    /\ UNCHANGED <<store, cache, session, media, requests>>

\* super().save(): INSERT of a new instance, UPDATE of a loaded one.
WriteUser(p) ==
    /\ req[p].pc = "write"
    /\ IF UniqueViolation(store, req[p].pk, req[p].instance.unique_code)
       THEN /\ store' = store
            /\ req' = [req EXCEPT ![p].pc = "raised", ![p].outcome = "IntegrityError"]
       ELSE IF req[p].pk = 0
       THEN /\ store' = Append(store, req[p].instance)
            /\ req' = [req EXCEPT ![p].pc = "saved", ![p].pk = Len(store) + 1]
       ELSE /\ store' = [store EXCEPT ![req[p].pk] = req[p].instance]
            /\ req' = [req EXCEPT ![p].pc = "saved"]
    /\ UNCHANGED <<cache, session, media, requests>>

NextUsers ==
    \/ \E p \in Savers, password \in Passwords : CreateUser(p, password)
    \/ \E p \in Savers, i \in 1..MaxRequests, password \in Passwords :
           ResaveUser(p, i, password)
    \/ \E p \in Savers, unique_code \in DrawnCodes : GenerateCode(p, unique_code)
    \/ \E p \in Savers : KeepCode(p)
    \/ \E p \in Savers : WriteUser(p)

SpecUsers == InitUsers /\ [][NextUsers]_vars

\* Every stored user has a code of four characters that no other stored
\* user has.
CodesUnique(st) ==
    \A i \in DOMAIN st :
        /\ Len(st[i].unique_code) = 4
        /\ \A j \in DOMAIN st : i # j => st[i].unique_code # st[j].unique_code

\* C23: after every step of any interleaving of creations and saves, each
\* stored user has a 4-character unique_code different from every other
\* user's, and the code of a stored user is the one it had before the step.
C23_CodesUniqueAndKept ==
    [][/\ CodesUnique(store')
       /\ \A i \in DOMAIN store :
              /\ i \in DOMAIN store'
              /\ store'[i].unique_code = store[i].unique_code]_vars

\* C23 witness: two creations drew the same code at the same time; one was
\* stored, the other refused, and a later save changed the stored user's
\* password and kept its code.
C23_Witness ==
    /\ Len(store) = 1
    /\ store[1].password = "pw1"
    /\ \E p \in Savers :
           /\ req[p].pc = "raised"
           /\ req[p].outcome = "IntegrityError"
           /\ req[p].instance.unique_code = store[1].unique_code
    /\ \E p \in Savers : req[p].pc = "saved" /\ req[p].pk = 1 /\ requests = 3

(* ---------------------------------------------------------------------- *)
(* load_image_submit: the base image, its record and the object storage    *)
(* ---------------------------------------------------------------------- *)

\* In the runs of image uploads media.image_models is the ImageModel table
\* and media.files the assets of the object storage, oldest first.

\* The asset imagekit.upload creates for the n-th request, tagged with the
\* user code, in folder /main/.
MainAsset(n, user) ==
    [url |-> "https://ik/main/img" \o Digit(n) \o ".png", tag |-> user, path |-> "main"]

\* The asset render_preview_url uploads, in folder /preview/.
PreviewAsset(n, user) ==
    [url |-> "https://ik/preview/img" \o Digit(n) \o ".png", tag |-> user,
     path |-> "preview"]

\* imagekit.list_files(ListAndSearchFileRequestOptions(tags=user, path=path))
\* .list: the assets with the tag under the path, in the order the service
\* lists them (by creation, oldest first).
ListFiles(files, user, path) ==
    LET Tagged(a) == a.tag = user /\ a.path = path IN SelectSeq(files, Tagged)

\* imagekit.delete_file(file_id=...)
DeleteFile(files, asset) ==
    LET Other(a) == a # asset IN SelectSeq(files, Other)

\* ImageModel(): image_url and image_file_name of the upload result,
\* preview_image_url NULL.
ImageRow(user, asset) ==
    [user |-> user, image_url |-> asset.url, preview_image_url |-> PyNone]

\* ImageModel.objects.filter(user__unique_code=user)
ImageRowsOf(rows, user) == LET Mine(r) == r.user = user IN SelectSeq(rows, Mine)

\* filter_instance.delete()
DeleteImageRows(rows, user) ==
    LET Others(r) == r.user # user IN SelectSeq(rows, Others)

\* Where a request's collaborators fail: nowhere, imagekit.upload, the
\* CustomUser lookup, the deletion of the old asset, instance.save().
UploadFailures == {"none", "upload", "get_user", "delete_old", "save"}

\* The try block of load_image_submit (lines 1322-1412): the upload, then
\* the transaction.  exc is the exception that leaves the block ("ok" for
\* none); rows are rolled back when the transaction raises, assets are not.
UploadAndSave(rows, files, user, n, fail) ==
    LET uploaded == Append(files, MainAsset(n, user))
        listed == ListFiles(uploaded, user, "main")
        exists == ImageRowsOf(rows, user) # <<>>
        removed == IF exists THEN DeleteFile(uploaded, listed[1]) ELSE uploaded
        kept == IF exists THEN DeleteImageRows(rows, user) ELSE rows
    IN
    IF fail = "upload"
    THEN [exc |-> "ImageMediaStorageError", rows |-> rows, files |-> files,
          image_uploaded |-> FALSE]
    ELSE IF fail = "get_user"
    THEN [exc |-> "DoesNotExist", rows |-> rows, files |-> uploaded,
          image_uploaded |-> TRUE]
    ELSE IF exists /\ fail = "delete_old"
    THEN [exc |-> "RuntimeError", rows |-> rows, files |-> uploaded,
          image_uploaded |-> TRUE]
    ELSE IF fail = "save"
    THEN [exc |-> "DatabaseError", rows |-> rows, files |-> removed,
          image_uploaded |-> TRUE]
    ELSE [exc |-> "ok", rows |-> Append(kept, ImageRow(user, MainAsset(n, user))),
          files |-> removed, image_uploaded |-> TRUE]

\* The except block (lines 1414-1436): with image_uploaded the first asset
\* listed for the user is deleted, then the exception is raised again.
\* storage_down: the service answers the deletion with a status other than
\* 204 and the bare raise re-raises the exception being handled.
Compensate(exc, files, user, image_uploaded, storage_down) ==
    LET listed == ListFiles(files, user, "main") IN
    IF ~image_uploaded THEN [exc |-> exc, files |-> files]
    ELSE IF listed = <<>> THEN [exc |-> "IndexError", files |-> files]
    ELSE IF storage_down THEN [exc |-> exc, files |-> files]
    ELSE [exc |-> exc, files |-> DeleteFile(files, listed[1])]

\* render_preview_url after the record is saved, for a user without item
\* sets: the base image is fetched by its URL, the preview is uploaded, the
\* first preview asset listed for the user is deleted (preview_image_url of
\* the new record is None, which differs from ""), and the record is saved
\* with the preview URL.
RenderPreviewUrl(rows, files, user, n, preview_down) ==
    LET base == CHOOSE i \in DOMAIN rows : rows[i].user = user
        fetched == \E i \in DOMAIN files : files[i].url = rows[base].image_url
        uploaded == Append(files, PreviewAsset(n, user))
        listed == ListFiles(uploaded, user, "preview")
    IN
    IF ~fetched \/ preview_down
    THEN [exc |-> "ImageMediaStorageError", rows |-> rows, files |-> files]
    ELSE [exc |-> "ok",
          rows |-> [rows EXCEPT ![base].preview_image_url =
                                    PyText(PreviewAsset(n, user).url)],
          files |-> DeleteFile(uploaded, listed[1])]

\* What an upload request leaves behind.
\*   op            "load_image_submit" or "load_image_invalid"
\*   fail          where the collaborators failed
\*   storage_down  the deletion of the except block failed
\*   outcome       "ok" or the exception that ended the request
\*   uploaded      the URL of the asset imagekit.upload created, None when
\*                 the upload failed
\*   before        media when the request arrived
ImageReport(op, fail, storage_down, outcome, uploaded, before) ==
    [op |-> op, fail |-> fail, storage_down |-> storage_down, outcome |-> outcome,
     uploaded |-> uploaded, before |-> before]

\* The signed-up user without item sets, image record or assets.
InitImage ==
    /\ store = <<>>
    /\ cache = EmptyCache
    /\ session = [user_code |-> PyText(UserCode), current_header |-> PyNone,
                  image_url |-> KeyMissing]
    /\ media = [image_models |-> <<>>, files |-> <<>>, archive |-> {}]
    /\ requests = 0
    /\ req = ImageReport("init", "none", FALSE, "ok", PyNone, media)

\* POST submit=load_image_submit with a valid ImageForm.
LoadImageSubmit(fail, storage_down, preview_down) ==
    /\ Tick
    /\ UNCHANGED store
    /\ LET d == Dispatch(store, cache, session)
           user == session.user_code.v
           n == requests + 1
           t == UploadAndSave(media.image_models, media.files, user, n, fail)
           c == Compensate(t.exc, t.files, user, t.image_uploaded, storage_down)
           p == RenderPreviewUrl(t.rows, t.files, user, n, preview_down)
           uploaded == IF t.image_uploaded THEN PyText(MainAsset(n, user).url)
                       ELSE PyNone
       IN
       /\ cache' = d.cache
       /\ IF d.exc # "ok"
          THEN /\ UNCHANGED <<media, session>>
               /\ req' = ImageReport("load_image_submit", fail, storage_down, d.exc,
                                     PyNone, media)
          ELSE IF t.exc # "ok"
          THEN /\ media' = [media EXCEPT !.files = c.files]
               /\ session' = session
               /\ req' = ImageReport("load_image_submit", fail, storage_down, c.exc,
                                     uploaded, media)
          ELSE IF p.exc # "ok"
          THEN /\ media' = [media EXCEPT !.image_models = t.rows, !.files = t.files]
               /\ session' = session
               /\ req' = ImageReport("load_image_submit", fail, storage_down, p.exc,
                                     uploaded, media)
          ELSE /\ media' = [media EXCEPT !.image_models = p.rows, !.files = p.files]
               /\ session' = [session EXCEPT !.image_url = uploaded]
               /\ req' = ImageReport("load_image_submit", fail, storage_down, "ok",
                                     uploaded, media)

\* POST submit=load_image_submit with an invalid ImageForm.
LoadImageInvalid ==
    /\ Tick
    /\ UNCHANGED <<store, media>>
    /\ LET d == Dispatch(store, cache, session) IN
       /\ cache' = d.cache
       /\ session' = IF d.exc # "ok" THEN session
                     ELSE [session EXCEPT !.image_url = PyNone]
       /\ req' = ImageReport("load_image_invalid", "none", FALSE, d.exc, PyNone, media)

NextImage ==
    \/ \E fail \in UploadFailures, storage_down \in BOOLEAN, preview_down \in BOOLEAN :
           LoadImageSubmit(fail, storage_down, preview_down)
    \/ LoadImageInvalid

SpecImage == InitImage /\ [][NextImage]_vars

\* The URLs of the assets the storage holds.
StoredUrls(files) == {files[i].url : i \in DOMAIN files}

\* C24: after a successful upload by a user who had an image record, the
\* store holds exactly one image record of the user, it references the new
\* asset, the storage holds the new asset and holds no asset the user's
\* previous record referenced.
C24_UploadReplacesImage ==
    (/\ req.op = "load_image_submit"
     /\ req.outcome = "ok"
     /\ ImageRowsOf(req.before.image_models, User) # <<>>)
    => /\ Len(ImageRowsOf(media.image_models, User)) = 1
       /\ PyEq(PyText(ImageRowsOf(media.image_models, User)[1].image_url), req.uploaded)
       /\ req.uploaded.v \in StoredUrls(media.files)
       /\ \A i \in DOMAIN req.before.image_models :
              req.before.image_models[i].image_url \notin StoredUrls(media.files)

\* C25: when the upload succeeded and the database transaction after it
\* failed, the uploaded asset is gone from the storage, the image records
\* and the assets the storage held before are as they were, and the request
\* ended in an error.
C25_FailedSaveCompensated ==
    (/\ req.op = "load_image_submit"
     /\ req.fail \in {"get_user", "save"}
     /\ ~req.storage_down)
    => /\ req.outcome # "ok"
       /\ req.uploaded.v \notin StoredUrls(media.files)
       /\ media.image_models = req.before.image_models
       /\ media.files = req.before.files

(* ---------------------------------------------------------------------- *)
(* Colour strings                                                          *)
(* ---------------------------------------------------------------------- *)

RECURSIVE Pow2(_)
Pow2(n) == IF n = 0 THEN 1 ELSE 2 * Pow2(n - 1)

Zeros(n) == [i \in 1..n |-> 0]

\* The first n base-256 digits after the point of r / d, for 0 <= r < d,
\* and the remainder that is left.
RECURSIVE DivDigits(_, _, _)
DivDigits(r, d, n) ==
    IF n = 0 THEN [digits |-> <<>>, rem |-> r]
    ELSE LET rest == DivDigits((256 * r) % d, d, n - 1)
         IN [digits |-> <<(256 * r) \div d>> \o rest.digits, rem |-> rest.rem]

\* digits * k + carry in base 256, most significant digit first; the result
\* is one digit longer.
RECURSIVE MulDigits(_, _, _)
MulDigits(digits, k, carry) ==
    IF digits = <<>> THEN <<carry>>
    ELSE LET n == Len(digits)
             p == digits[n] * k + carry
         IN MulDigits(SubSeq(digits, 1, n - 1), k, p \div 256) \o <<p % 256>>

\* The bits of a string of base-256 digits, most significant first.
BitsOf(digits) ==
    [i \in 1..(8 * Len(digits)) |->
        (digits[((i - 1) \div 8) + 1] \div Pow2(7 - ((i - 1) % 8))) % 2]

\* The base-256 digits of a string of bits whose length is a multiple of 8.
DigitsOf(bits) ==
    [j \in 1..(Len(bits) \div 8) |->
        LET b(k) == bits[8 * (j - 1) + k]
        IN 128 * b(1) + 64 * b(2) + 32 * b(3) + 16 * b(4)
           + 8 * b(5) + 4 * b(6) + 2 * b(7) + b(8)]

\* bits + 1; one bit longer when every bit is 1.
Inc(bits) ==
    IF \A i \in 1..Len(bits) : bits[i] = 1 THEN <<1>> \o Zeros(Len(bits))
    ELSE LET k == CHOOSE i \in 1..Len(bits) :
                      bits[i] = 0 /\ \A j \in (i + 1)..Len(bits) : bits[j] = 1
         IN [i \in 1..Len(bits) |-> IF i < k THEN bits[i] ELSE IF i = k THEN 1 ELSE 0]

\* bits without its leading zeros (bits holds a 1).
Strip(bits) ==
    LET k == CHOOSE i \in 1..Len(bits) : bits[i] = 1 /\ \A j \in 1..(i - 1) : bits[j] = 0
    IN SubSeq(bits, k, Len(bits))

\* A Python float (an IEEE 754 double) above zero is [m, scale]: the 53-bit
\* integer m, most significant bit first, times 2^(-scale).  Round53 rounds
\* the value bits * 2^(-scale), followed by a non-zero tail when sticky, to
\* 53 significant bits, ties to even.
Round53(bits, scale, sticky) ==
    LET n == Len(bits) IN
    IF n <= 53 THEN [m |-> bits \o Zeros(53 - n), scale |-> scale + (53 - n)]
    ELSE LET kept == SubSeq(bits, 1, 53)
             rest == sticky \/ \E i \in 55..n : bits[i] = 1
             up == bits[54] = 1 /\ (rest \/ kept[53] = 1)
             r == IF up THEN Inc(kept) ELSE kept
         IN [m |-> SubSeq(r, 1, 53),
             scale |-> scale - (n - 53) - (IF Len(r) = 54 THEN 1 ELSE 0)]

FloatZero == [m |-> <<>>, scale |-> 0]

\* a / float(d) for integers 0 <= a <= d: the double nearest the quotient.
FloatDiv(a, d) ==
    IF a = 0 THEN FloatZero
    ELSE IF a = d THEN [m |-> <<1>> \o Zeros(52), scale |-> 52]
    ELSE LET q == DivDigits(a, d, 8)
         IN Round53(Strip(BitsOf(q.digits)), 64, q.rem # 0)

\* f * k for a double f and an integer 0 < k < 256: the double nearest the
\* product.
FloatMul(f, k) ==
    IF f.m = <<>> THEN f
    ELSE LET wide == MulDigits(DigitsOf(Zeros(3) \o f.m), k, 0)
         IN Round53(Strip(BitsOf(wide)), f.scale, FALSE)

\* int(f) for a double 0 <= f < 256: truncation.
FloatToInt(f) ==
    IF f.m = <<>> \/ f.scale >= 53 THEN 0
    ELSE LET d == DigitsOf(Zeros(3 + f.scale) \o SubSeq(f.m, 1, 53 - f.scale))
         IN d[Len(d)]

PyFloat(f) == [t |-> "float", v |-> f]
PyTuple(s) == [t |-> "tuple", v |-> s]

\* The value of one hexadecimal digit, as int(s, 16) reads it.
DigitValue(ch) ==
    CASE ch = "0" -> 0 [] ch = "1" -> 1 [] ch = "2" -> 2 [] ch = "3" -> 3
      [] ch = "4" -> 4 [] ch = "5" -> 5 [] ch = "6" -> 6 [] ch = "7" -> 7
      [] ch = "8" -> 8 [] ch = "9" -> 9
      [] ch \in {"a", "A"} -> 10 [] ch \in {"b", "B"} -> 11
      [] ch \in {"c", "C"} -> 12 [] ch \in {"d", "D"} -> 13
      [] ch \in {"e", "E"} -> 14 [] ch \in {"f", "F"} -> 15

\* int(s, 16) for a string of hexadecimal digits.
RECURSIVE IntBase16(_)
IntBase16(s) ==
    IF Len(s) = 0 THEN 0
    ELSE 16 * IntBase16(SubSeq(s, 1, Len(s) - 1)) + DigitValue(SubSeq(s, Len(s), Len(s)))

\* s[i:j] and s[-2:] of Python, for a str s.
PySlice(s, i, j) == SubSeq(s, i + 1, IF j < Len(s) THEN j ELSE Len(s))
PyLastTwo(s) == SubSeq(s, IF Len(s) > 2 THEN Len(s) - 1 ELSE 1, Len(s))

\* The decode of render_preview_url (views.py 601-614): the three channel
\* values, the alpha factor, and the fill handed to draw.text.
PreviewDecode(color) ==
    LET rgb_values == <<IntBase16(PySlice(color, 1, 3)),
                        IntBase16(PySlice(color, 3, 5)),
                        IntBase16(PySlice(color, 5, 7))>>
        transparency == FloatDiv(IntBase16(PyLastTwo(color)), 255)
    IN [rgb_values |-> PyTuple(rgb_values),
        transparency |-> PyFloat(transparency),
        fill |-> PyTuple(rgb_values \o <<FloatToInt(FloatMul(transparency, 255))>>)]

\* reportlab's Color(red=0, green=0, blue=0, alpha=1) stores its arguments:
\* called with one str, the str becomes the red attribute.
ReportlabColor(red) == [red |-> red, green |-> 0, blue |-> 0, alpha |-> 1]

\* hex_to_rgb_with_alpha (views.py 778-780) returns Color(hex_color).rgb.
\* rgb is a method of Color and the code does not call it: the value is the
\* bound method.  No alpha factor and no fill are computed from it; the
\* export draws with Color(data_item.color) itself (views.py 794, 800).
HexToRgbWithAlpha(hex_color) ==
    LET bound == [t |-> "method", v |-> <<ReportlabColor(hex_color), "rgb">>]
    IN [rgb_values |-> bound, transparency |-> PyNone, fill |-> PyNone]

\* The text of a colour: '#' and four bytes as two hexadecimal digits each,
\* in lower case (as the default '#aa33ffff') or upper case.
HexChar(n, upper) ==
    SubSeq(IF upper THEN "0123456789ABCDEF" ELSE "0123456789abcdef", n + 1, n + 1)

ColourText(bytes, upper) ==
    "#" \o HexChar(bytes[1] \div 16, upper) \o HexChar(bytes[1] % 16, upper)
        \o HexChar(bytes[2] \div 16, upper) \o HexChar(bytes[2] % 16, upper)
        \o HexChar(bytes[3] \div 16, upper) \o HexChar(bytes[3] % 16, upper)
        \o HexChar(bytes[4] \div 16, upper) \o HexChar(bytes[4] % 16, upper)

\* The colours a data item is given: a few channel triples, every alpha byte.
Channels == {<<51, 102, 153>>, <<170, 51, 255>>, <<0, 0, 0>>, <<255, 255, 255>>, <<18, 171, 205>>}
AlphaBytes == 0..255

ColourReport(op, bytes, color, decoded) ==
    [op |-> op, bytes |-> bytes, color |-> color, decoded |-> decoded]

InitColour ==
    /\ store = <<>>
    /\ cache = EmptyCache
    /\ session = [user_code |-> PyText(UserCode)]
    /\ media = [image_models |-> <<>>, files |-> <<>>, archive |-> {}]
    /\ requests = 0
    /\ \E c \in Channels, a \in AlphaBytes, upper \in BOOLEAN :
           req = ColourReport("init", c \o <<a>>, ColourText(c \o <<a>>, upper), PyNone)

\* The preview draws the text of a data item of this colour.
DecodeForPreview ==
    /\ Tick
    /\ UNCHANGED <<store, cache, session, media>>
    /\ req' = ColourReport("render_preview_url", req.bytes, req.color,
                           PreviewDecode(req.color))

\* The export decodes the colour of the first data item of a group.
DecodeForExport ==
    /\ Tick
    /\ UNCHANGED <<store, cache, session, media>>
    /\ req' = ColourReport("hex_to_rgb_with_alpha", req.bytes, req.color,
                           HexToRgbWithAlpha(req.color))

NextColour ==
    \/ DecodeForPreview
    \/ DecodeForExport

SpecColour == InitColour /\ [][NextColour]_vars

\* C27: a decoded colour '#RRGGBBAA' has the channel integers RR, GG, BB,
\* the alpha factor AA / 255, and the alpha byte AA in the text fill.
C27_ColourDecoded ==
    req.op \in {"render_preview_url", "hex_to_rgb_with_alpha"}
    => /\ PyEq(req.decoded.rgb_values, PyTuple(SubSeq(req.bytes, 1, 3)))
       /\ PyEq(req.decoded.transparency, PyFloat(FloatDiv(req.bytes[4], 255)))
       /\ PyEq(req.decoded.fill, PyTuple(req.bytes))

\* The same for the decode of render_preview_url alone.
PreviewColourDecoded ==
    req.op = "render_preview_url"
    => /\ PyEq(req.decoded.rgb_values, PyTuple(SubSeq(req.bytes, 1, 3)))
       /\ PyEq(req.decoded.fill, PyTuple(req.bytes))

(* ---------------------------------------------------------------------- *)
(* Claims on reload_cache                                                  *)
(* ---------------------------------------------------------------------- *)

\* The header_items argument of the reload_cache(headers=True, ...) call
\* that ends the request: ["__all__"] in load_excel_submit, the new heading
\* (a str) in update_item_heading, None in inspector_header_item_remove.
HeaderItemsOf(r) ==
    CASE r.op = "load_excel" -> PyList(<<"__all__">>)
      [] r.op = "update_item_heading" -> r.arg
      [] OTHER -> PyNone

\* Requests whose last cache write is a reload_cache(headers=True, ...)
\* call that returned.
EndsWithHeaderReload ==
    /\ req.op \in {"load_excel", "update_item_heading", "inspector_header_item_remove"}
    /\ req.outcome = "ok"

HasStoredList(st, h) ==
    /\ GetStatus(st, User, PyText(h)) = "ok"
    /\ IsListLiteral(st[GetIndex(st, User, PyText(h))].item_set)

\* C28: after an update_inspector_data request changed the length of the
\* stored list of heading H, the full-availability flag of H is the
\* boolean (new length <= W).
C28_FlagRecomputed ==
    [][(/\ req'.op = "update_inspector_data"
        /\ req'.outcome = "ok"
        /\ req'.arg.t = "str"
        /\ HasStoredList(store, req'.arg.v)
        /\ HasStoredList(store', req'.arg.v)
        /\ Len(StoredList(store, User, req'.arg.v))
               # Len(StoredList(store', User, req'.arg.v)))
       => PyEq(CacheGet(cache', FullKey(User, req'.arg.v)),
               PyBool(Len(StoredList(store', User, req'.arg.v)) <= cache_max_limit))]_vars

(* ---------------------------------------------------------------------- *)
(* reload_cache called on the states the requests leave                    *)
(* ---------------------------------------------------------------------- *)

\* The requests that create and change item sets one at a time build the
\* stores and caches the calls are made on; the Excel import is left to Spec.

\* The header_items arguments tried: the sentinel and lists that name
\* several headings.
HeaderItemArgs == {PyList(<<"__all__">>), PyList(<<"A", "B">>), PyList(<<"", "A">>)}

\* What a reload_cache call leaves for the caller: its arguments, its
\* result ("None" or "False" for a return value, otherwise the exception
\* raised) and the cache it found.
ReloadReport(headers, header_items, result, before) ==
    [op |-> "reload_cache", headers |-> headers, header_items |-> header_items,
     result |-> result, before |-> before]

\* A cache entry reaches its timeout (no TIMEOUT is configured, so every
\* entry gets Django's default of 300 seconds).
CacheExpires ==
    /\ Tick
    /\ UNCHANGED <<store, session, media>>
    /\ \E k \in DOMAIN cache :
           /\ cache' = CacheDelete(cache, k)
           /\ req' = [op |-> "expire", key |-> k]

\* self.reload_cache(headers, header_items) for the user of the session.
ReloadCacheCall(headers, header_items) ==
    /\ Tick
    /\ UNCHANGED <<store, session, media>>
    /\ LET r == ReloadCache(store, cache, User, headers, header_items) IN
       /\ cache' = r.cache
       /\ req' = ReloadReport(headers, header_items, r.result, cache)

NextReload ==
    \/ Get
    \/ AddBlankItemHeading
    \/ \E h \in Headings, x \in PositionXs : UpdateItemHeading(h, x)
    \/ \E h \in Headings \ {""} : InspectorHeaderItem(h)
    \/ \E h \in Headings : InspectorHeaderItemRemove(h)
    \/ \E posted \in PostedLists, new \in PostedNew, location \in {"top", "bottom"} :
           UpdateInspectorData(posted, new, location)
    \/ LoadAllInspectorData
    \/ CacheExpires
    \/ \E headers \in BOOLEAN, header_items \in HeaderItemArgs :
           ReloadCacheCall(headers, header_items)

SpecReload == Init /\ [][NextReload]_vars

\* The headings a reload_cache call is asked to refresh: the named ones,
\* or for the sentinel the stored headings (headers=True) or the headings
\* of the cached header list (headers=False).
Requested(r) ==
    LET cached == CacheGet(r.before, HeaderKey(User)) IN
    IF ~IsAll(r.header_items) THEN ToSet(r.header_items.v)
    ELSE IF r.headers THEN ToSet(HeadingList(store, User))
    ELSE IF cached.t = "list" THEN ToSet(cached.v)
    ELSE {}

\* The cache holds the item window and the flag of h as the store has them.
\* (The item key of the heading db_cache_headers is the header-list key,
\* which the window loop skips.)
Refreshed(h) ==
    /\ ItemKey(User, h) # HeaderKey(User)
       => PyEq(CacheGet(cache, ItemKey(User, h)), Window(h))
    /\ PyEq(CacheGet(cache, FullKey(User, h)), Fits(h))

\* C29: a reload_cache call asked to refresh several headings, one of which
\* the store does not hold, returns without raising, and the item window
\* and the flag of every other requested heading are as the store has them.
C29_MissingHeadingSkipped ==
    (/\ req.op = "reload_cache"
     /\ Cardinality(Requested(req)) >= 2
     /\ \E h \in Requested(req) : GetStatus(store, User, PyText(h)) = "ObjectDoesNotExist")
    => /\ ~Raised(req.result)
       /\ \A h \in Requested(req) \cap StoredHeadings : Refreshed(h)

C31_AbsentEntryNoHeadings ==
    (/\ req.op = "reload_cache"
     /\ ~req.headers
     /\ IsAll(req.header_items)
     /\ HeaderKey(User) \notin DOMAIN req.before)
    => /\ ~Raised(req.result)
       /\ cache = req.before

\* C31 witness: the call was made with the header-list entry absent while
\* the store held item sets of the user; no window and no flag of them is
\* in the cache.
C31_Witness ==
    /\ req.op = "reload_cache"
    /\ ~req.headers
    /\ IsAll(req.header_items)
    /\ HeaderKey(User) \notin DOMAIN req.before
    /\ HeadingList(store, User) # <<>>
    /\ \A h \in ToSet(HeadingList(store, User)) :
           /\ ItemKey(User, h) \notin DOMAIN cache
           /\ FullKey(User, h) \notin DOMAIN cache

(* ---------------------------------------------------------------------- *)
(* The preview of a user who has a base image                              *)
(* ---------------------------------------------------------------------- *)

\* In these runs the user has uploaded a base image in an earlier request:
\* media.image_models is the ImageModel table, media.files the assets of
\* the object storage, and session["image_url"] is the URL of the image.

\* The record and the assets a successful load_image_submit leaves.
BaseImageMedia ==
    LET t == UploadAndSave(<<>>, <<>>, UserCode, 9, "none")
        p == RenderPreviewUrl(t.rows, t.files, UserCode, 9, FALSE)
    IN [image_models |-> p.rows, files |-> p.files, archive |-> {}]

\* The lists of the stored item sets: empty, or one that fills the window.
PreviewLists == {<<>>, Gen("x", cache_max_limit)}

\* The sheets uploaded in these runs: those of one column.
PreviewFiles == {f \in ExcelFiles : Len(f) = 1}

\* Item sets the user may hold when a request arrives: one or two headings,
\* each with an empty list (a blank heading that was renamed) or an
\* imported list.
PreviewStores ==
    LET Row(h, l) == [NewRow(UserCode) EXCEPT !.item_set_heading = h,
                                              !.item_set = PyStr(l)]
    IN {<<Row(h, l)>> : h \in {"A", "B"}, l \in PreviewLists}
       \cup {<<Row("A", l), Row("B", m)>> : l \in PreviewLists, m \in PreviewLists}

\* What a request leaves for the page and the caller: the request, its
\* heading argument, "ok" or the exception that ended it, the item sets
\* when it arrived, and whether it saved a new preview.
PreviewReport(op, arg, outcome, before, rendered) ==
    [op |-> op, arg |-> arg, outcome |-> outcome, before |-> before,
     rendered |-> rendered]

InitPreview ==
    /\ store \in PreviewStores
    /\ cache = EmptyCache
    /\ session \in {[user_code |-> PyText(UserCode), current_header |-> h,
                     image_url |-> PyText(MainAsset(9, UserCode).url)] :
                        h \in {PyNone, PyText(store[1].item_set_heading)}}
    /\ media = BaseImageMedia
    /\ requests = 0
    /\ req = PreviewReport("init", PyNone, "ok", store, FALSE)

\* The drawing loop of render_preview_url (views.py 593-615): for every item
\* set of the user, in table order, the text drawn is
\* str(ast.literal_eval(data_item.item_set)[0]).  "ok", or the exception of
\* the first item set that has no first item.
RECURSIVE DrawLoop(_, _, _)
DrawLoop(st, user, i) ==
    IF i > Len(st) THEN "ok"
    ELSE IF st[i].user_code # user THEN DrawLoop(st, user, i + 1)
    ELSE IF ~IsListLiteral(st[i].item_set) THEN "ValueError"
    ELSE IF LiteralEval(st[i].item_set) = <<>> THEN "IndexError"
    ELSE DrawLoop(st, user, i + 1)

\* render_preview_url on the item sets st: nothing when the session has no
\* image_url or an empty one; otherwise the image record is read, the base
\* image fetched, the texts drawn and the preview uploaded and saved.
RenderPreview(st, md, se, n) ==
    LET user == se.user_code.v
        mine == ImageRowsOf(md.image_models, user)
        drawn == DrawLoop(st, user, 1)
        p == RenderPreviewUrl(md.image_models, md.files, user, n, FALSE)
    IN
    IF se.image_url.t = "missing" \/ PyEq(se.image_url, PyText(""))
    THEN [exc |-> "ok", media |-> md, rendered |-> FALSE]
    ELSE IF Len(mine) # 1
    THEN [exc |-> IF mine = <<>> THEN "ObjectDoesNotExist" ELSE "MultipleObjectsReturned",
          media |-> md, rendered |-> FALSE]
    ELSE IF drawn # "ok" /\ p.exc = "ok"
    THEN [exc |-> drawn, media |-> md, rendered |-> FALSE]
    ELSE IF p.exc # "ok"
    THEN [exc |-> p.exc, media |-> md, rendered |-> FALSE]
    ELSE [exc |-> "ok",
          media |-> [md EXCEPT !.image_models = p.rows, !.files = p.files],
          rendered |-> TRUE]

\* The state a request leaves when the handler stopped with `exc` after
\* saving st and ca, or reached its end, where it calls
\* self.render_preview_url() when `call`.  An exception gives a 500 and the
\* session is not saved; what the handler saved before it stays saved.
Finish(op, arg, exc, st, ca, se, call) ==
    LET p == IF exc = "ok" /\ call
             THEN RenderPreview(st, media, se, requests + 1)
             ELSE [exc |-> exc, media |-> media, rendered |-> FALSE]
    IN [store |-> st, cache |-> ca,
        session |-> IF p.exc = "ok" THEN se ELSE session,
        media |-> p.media,
        req |-> PreviewReport(op, arg, p.exc, store, p.rendered)]

\* update_item_heading after dispatch (views.py 1176-1272): the instance is
\* resolved and saved, reload_cache(headers=True, header_items=<heading>)
\* runs, and the preview is rendered when the user has item sets.
UpdateItemHeadingEnd(d, item_heading, position_x) ==
    LET op == "update_item_heading"
        arg == PyText(item_heading)
        Reloaded(saved, r) ==
            IF Raised(r.result)
            THEN Finish(op, arg, r.result, saved, r.cache, session, FALSE)
            ELSE Finish(op, arg, "ok", saved, r.cache,
                        [session EXCEPT !.current_header = arg], saved # <<>>)
        Saved(saved) ==
            Reloaded(saved, ReloadCache(saved, d.cache, session.user_code.v, TRUE, arg))
        Resolved(inst) ==
            IF inst.kind = "queryset"
            THEN Finish(op, arg, "AttributeError", store, d.cache, session, FALSE)
            ELSE IF inst.kind \notin {"new", "row"}
            THEN Finish(op, arg, inst.kind, store, d.cache, session, FALSE)
            ELSE Saved(SaveHeading(store, session.user_code.v, inst, item_heading,
                                   position_x))
    IN IF d.exc # "ok"
       THEN Finish(op, arg, d.exc, store, d.cache, session, FALSE)
       ELSE Resolved(ResolveInstance(store, d.cache, session, item_heading))

\* POST submit_update=update_item_heading with a valid ItemForm.
PreviewUpdateItemHeading(item_heading, position_x) ==
    /\ Tick
    /\ \E end \in {UpdateItemHeadingEnd(Dispatch(store, cache, session),
                                        item_heading, position_x)} :
           /\ Len(end.store) <= MaxRows
           /\ store' = end.store
           /\ cache' = end.cache
           /\ session' = end.session
           /\ media' = end.media
           /\ req' = end.req

\* inspector_header_item_remove after dispatch (views.py 1476-1498): the row
\* is deleted, the cache entry named by the bare heading is deleted, and the
\* handler ends with reload_cache(headers=True, header_items=None).  It
\* holds no call of render_preview_url.
RemoveEnd(d, h) ==
    LET op == "inspector_header_item_remove"
        user == session.user_code.v
        Deleted(st, status) ==
            IF status # "ok"
            THEN Finish(op, PyText(h), status, store, d.cache, session, FALSE)
            ELSE Finish(op, PyText(h), "ok", st,
                        ReloadCache(st, CacheDelete(d.cache, h), user, TRUE, PyNone).cache,
                        IF PyEq(session.current_header, PyText(h))
                        THEN [session EXCEPT !.current_header = PyNone]
                        ELSE session,
                        FALSE)
    IN IF d.exc # "ok"
       THEN Finish(op, PyText(h), d.exc, store, d.cache, session, FALSE)
       ELSE Deleted(DeleteRow(store, GetIndex(store, user, PyText(h))),
                    GetStatus(store, user, PyText(h)))

\* POST submit_remove=inspector_header_item_remove.
PreviewRemove(h) ==
    /\ Tick
    /\ \E end \in {RemoveEnd(Dispatch(store, cache, session), h)} :
           /\ store' = end.store
           /\ cache' = end.cache
           /\ session' = end.session
           /\ media' = end.media
           /\ req' = end.req

\* update_inspector_data after dispatch (views.py 1501-1551): after the save
\* and reload_cache(headers=False, header_items=[current_header]) the
\* preview is rendered.
UpdateInspectorDataEnd(d, posted, new_item_data) ==
    LET op == "update_inspector_data"
        arg == session.current_header
        user == session.user_code.v
        Reloaded(saved, r) ==
            IF Raised(r.result)
            THEN Finish(op, arg, r.result, saved, r.cache, session, FALSE)
            ELSE Finish(op, arg, "ok", saved, r.cache, session, TRUE)
        Built(i, item_set) ==
            IF item_set.t = "none"
            THEN Finish(op, arg, "IntegrityError", store, d.cache, session, FALSE)
            ELSE Reloaded([store EXCEPT ![i].item_set = PyStr(item_set.v)],
                          ReloadCache([store EXCEPT ![i].item_set = PyStr(item_set.v)],
                                      d.cache, user, FALSE, PyList(<<FStr(arg)>>)))
        Found(i, old_item_data) ==
            IF ~Truthy(old_item_data) /\ ~IsListLiteral(store[i].item_set)
            THEN Finish(op, arg, "ValueError", store, d.cache, session, FALSE)
            ELSE Built(i, NewItemSet(LiteralEval(store[i].item_set), old_item_data,
                                     new_item_data))
        Read(status) ==
            IF status # "ok"
            THEN Finish(op, arg, status, store, d.cache, session, FALSE)
            ELSE Found(GetIndex(store, user, arg), OldItemData(d.cache, session, posted))
    IN IF d.exc # "ok"
       THEN Finish(op, arg, d.exc, store, d.cache, session, FALSE)
       ELSE Read(GetStatus(store, user, arg))

\* POST submit=update_inspector_data.
PreviewUpdateInspectorData(posted, new_item_data) ==
    /\ Tick
    /\ \E end \in {UpdateInspectorDataEnd(Dispatch(store, cache, session),
                                          posted, new_item_data)} :
           /\ store' = end.store
           /\ cache' = end.cache
           /\ session' = end.session
           /\ media' = end.media
           /\ req' = end.req

\* load_excel after dispatch (views.py 1274-1305): after the import and
\* reload_cache(headers=True, header_items=["__all__"]) the preview is
\* rendered.
LoadExcelEnd(d, file) ==
    LET op == "load_excel"
        user == session.user_code.v
        Reloaded(st, r) ==
            IF Raised(r.result)
            THEN Finish(op, PyNone, r.result, st, r.cache, session, FALSE)
            ELSE Finish(op, PyNone, "ok", st, r.cache,
                        [session EXCEPT !.current_header =
                             PyText(CacheGet(r.cache, HeaderKey(user)).v[1])],
                        TRUE)
        Imported(run) ==
            IF run.outcome # "ok"
            THEN Finish(op, PyNone, run.outcome, run.store, d.cache, session, FALSE)
            ELSE Reloaded(run.store,
                          ReloadCache(run.store, d.cache, user, TRUE,
                                      PyList(<<"__all__">>)))
    IN IF d.exc # "ok"
       THEN Finish(op, PyNone, d.exc, store, d.cache, session, FALSE)
       ELSE Imported(StoreExcelToModel(store, user, file))

\* POST submit=load_excel_submit with a valid ExcelForm.
PreviewLoadExcel(file) ==
    /\ Tick
    /\ \E end \in {LoadExcelEnd(Dispatch(store, cache, session), file)} :
           /\ Len(end.store) <= MaxRows
           /\ store' = end.store
           /\ cache' = end.cache
           /\ session' = end.session
           /\ media' = end.media
           /\ req' = end.req

NextPreview ==
    \/ \E h \in Headings, x \in PositionXs : PreviewUpdateItemHeading(h, x)
    \/ \E h \in Headings : PreviewRemove(h)
    \/ \E posted \in PostedLists, new \in PostedNew :
           PreviewUpdateInspectorData(posted, new)
    \/ \E file \in PreviewFiles : PreviewLoadExcel(file)

SpecPreview == InitPreview /\ [][NextPreview]_vars

\* What the first list index renders: for every item set of the user, in
\* table order, the position and the first item ("" when there is none).
FirstIndexRender(st, user) ==
    LET Mine(r) == r.user_code = user
        rows == SelectSeq(st, Mine)
    IN [i \in DOMAIN rows |->
           <<rows[i].position_x,
             IF IsListLiteral(rows[i].item_set) /\ LiteralEval(rows[i].item_set) # <<>>
             THEN LiteralEval(rows[i].item_set)[1]
             ELSE "">>]

\* C32: a request (item-data update, heading update, Excel import, heading
\* removal) that changed what the first list index renders has completed
\* without an exception and has saved a new preview, whatever the lengths
\* of the item sets.
C32_PreviewRegenerated ==
    (/\ req.op \in {"update_inspector_data", "update_item_heading", "load_excel",
                    "inspector_header_item_remove"}
     /\ FirstIndexRender(req.before, User) # FirstIndexRender(store, User))
    => /\ req.outcome = "ok"
       /\ req.rendered

(* ---------------------------------------------------------------------- *)
(* reload_cache run by two requests of one user at the same time           *)
(* ---------------------------------------------------------------------- *)

\* The requests of the user that run reload_cache side by side.
Workers == {1, 2}

\* Lists the item sets hold while the calls run: one of a single item, one
\* that fills the window exactly and one that is longer.
RaceLists == {<<NewItem>>, Gen("x", cache_max_limit), Gen("x", cache_max_limit + 1)}

\* One execution of reload_cache(headers, ["__all__"]) (views.py 276-344).
\*   pc                "idle"; "headings" (280-294); "load" (303-314);
\*                     "windows" (316-321); "flags" (323-327); "headers"
\*                     (329-332); "done"
\*   headers           the argument
\*   inspector_header  the heading list read at 281-285
\*   header_items      the headings the loops run over
\*   buffer            inspector_data_buffer, in insertion order
\*   i                 the position of the running loop
\*   result            "None", "False" or the exception raised
Execution(pc, headers) ==
    [pc |-> pc, headers |-> headers, inspector_header |-> <<>>, header_items |-> <<>>,
     buffer |-> <<>>, i |-> 1, result |-> "None"]

\* req.run holds the executions; req.window_from and req.flag_from hold,
\* for every heading, the stored list the cached window and the cached flag
\* were computed from.
InitInterleaved ==
    /\ store \in {<<[NewRow(UserCode) EXCEPT !.item_set_heading = "A",
                                            !.item_set = PyStr(l)]>> : l \in RaceLists}
                 \cup {<<[NewRow(UserCode) EXCEPT !.item_set_heading = "A",
                                                  !.item_set = PyStr(l)],
                         [NewRow(UserCode) EXCEPT !.item_set_heading = "B",
                                                  !.item_set = PyStr(m)]>> :
                           l \in RaceLists, m \in RaceLists}
    /\ cache = EmptyCache
    /\ session = [user_code |-> PyText(UserCode), current_header |-> PyNone]
    /\ media = NoMedia
    /\ requests = 0
    /\ req = [run |-> [p \in Workers |-> Execution("idle", FALSE)],
              window_from |-> [h \in {} |-> <<>>],
              flag_from |-> [h \in {} |-> <<>>]]

\* A request of the user reaches reload_cache(headers, ["__all__"]).
StartReload(p, headers) ==
    /\ req.run[p].pc \in {"idle", "done"}
    /\ Tick
    /\ req' = [req EXCEPT !.run[p] = Execution("headings", headers)]
    /\ UNCHANGED <<store, cache, session, media>>

\* views.py 280-294: the heading list is read from the store (headers) or
\* from the cache; with neither the call raises ObjectDoesNotExist, which
\* its handler turns into return False.
ReadHeadings(p) ==
    /\ req.run[p].pc = "headings"
    /\ LET e == req.run[p]
           cached == CacheGet(cache, HeaderKey(User))
           stored == HeadingList(store, User)
       IN req' = IF e.headers
                 THEN [req EXCEPT !.run[p].inspector_header = stored,
                                  !.run[p].header_items = stored,
                                  !.run[p].pc = IF stored = <<>> THEN "headers" ELSE "load"]
                 ELSE IF cached.t = "none"
                 THEN [req EXCEPT !.run[p].pc = "done", !.run[p].result = "False"]
                 ELSE [req EXCEPT !.run[p].header_items = cached.v,
                                  !.run[p].pc = IF cached.v = <<>> THEN "done" ELSE "load"]
    /\ UNCHANGED <<store, cache, session, media, requests>>

\* views.py 303-314, one pass: the item set of the next heading is read from
\* the store and put into the buffers.
LoadItem(p) ==
    /\ req.run[p].pc = "load"
    /\ LET e == req.run[p]
           item == e.header_items[e.i]
           status == GetStatus(store, User, PyText(item))
           last == e.i = Len(e.header_items)
       IN req' = IF status = "ObjectDoesNotExist"
                 THEN [req EXCEPT !.run[p].pc = "done", !.run[p].result = "False"]
                 ELSE IF status # "ok"
                 THEN [req EXCEPT !.run[p].pc = "done", !.run[p].result = status]
                 ELSE [req EXCEPT !.run[p].buffer = Append(@, StoredList(store, User, item)),
                                  !.run[p].i = IF last THEN 1 ELSE @ + 1,
                                  !.run[p].pc = IF last THEN "windows" ELSE "load"]
    /\ UNCHANGED <<store, cache, session, media, requests>>

\* views.py 316-321, one pass: cache.set(cache_key, data[: cache_max_limit])
\* unless the key is the header-list key.
WriteWindow(p) ==
    /\ req.run[p].pc = "windows"
    /\ LET e == req.run[p]
           item == e.header_items[e.i]
           cache_key == ItemKey(User, item)
           last == e.i = Len(e.header_items)
           skip == cache_key = HeaderKey(User)
       IN /\ cache' = IF skip THEN cache
                      ELSE CacheSet(cache, cache_key,
                                    PyList(Prefix(e.buffer[e.i], cache_max_limit)))
          /\ req' = [req EXCEPT
                        !.run[p].i = IF last THEN 1 ELSE @ + 1,
                        !.run[p].pc = IF last THEN "flags" ELSE "windows",
                        !.window_from = IF skip THEN @
                                        ELSE [h \in DOMAIN @ \cup {item} |->
                                                 IF h = item THEN e.buffer[e.i] ELSE @[h]]]
    /\ UNCHANGED <<store, session, media, requests>>

\* views.py 323-327, one pass: cache.set(full_available_key, full_available)
WriteFlag(p) ==
    /\ req.run[p].pc = "flags"
    /\ LET e == req.run[p]
           item == e.header_items[e.i]
           last == e.i = Len(e.header_items)
       IN /\ cache' = CacheSet(cache, FullKey(User, item),
                               PyBool(Len(e.buffer[e.i]) <= cache_max_limit))
          /\ req' = [req EXCEPT
                        !.run[p].i = IF last THEN 1 ELSE @ + 1,
                        !.run[p].pc = IF ~last THEN "flags"
                                      ELSE IF e.headers THEN "headers" ELSE "done",
                        !.flag_from = [h \in DOMAIN @ \cup {item} |->
                                          IF h = item THEN e.buffer[e.i] ELSE @[h]]]
    /\ UNCHANGED <<store, session, media, requests>>

\* views.py 329-332: cache.set(self.cache_key_header, inspector_header)
WriteHeaders(p) ==
    /\ req.run[p].pc = "headers"
    /\ cache' = CacheSet(cache, HeaderKey(User), PyList(req.run[p].inspector_header))
    /\ req' = [req EXCEPT !.run[p].pc = "done"]
    /\ UNCHANGED <<store, session, media, requests>>

\* Another request of the user saves a list under heading h (instance.save()
\* of update_inspector_data, views.py 1538-1539) while the calls run.
SaveItemSet(h, l) ==
    /\ Tick
    /\ GetStatus(store, User, PyText(h)) = "ok"
    /\ StoredList(store, User, h) # l
    /\ store' = [store EXCEPT ![GetIndex(store, User, PyText(h))].item_set = PyStr(l)]
    /\ UNCHANGED <<cache, session, media, req>>

NextInterleaved ==
    \/ \E p \in Workers, headers \in BOOLEAN : StartReload(p, headers)
    \/ \E p \in Workers : ReadHeadings(p)
    \/ \E p \in Workers : LoadItem(p)
    \/ \E p \in Workers : WriteWindow(p)
    \/ \E p \in Workers : WriteFlag(p)
    \/ \E p \in Workers : WriteHeaders(p)
    \/ \E h \in {"A", "B"}, l \in RaceLists : SaveItemSet(h, l)

SpecInterleaved == InitInterleaved /\ [][NextInterleaved]_vars

\* No execution of reload_cache is under way.
AllCompleted == \A p \in Workers : req.run[p].pc \in {"idle", "done"}

\* C33: once every concurrent reload_cache execution of the user has
\* completed, the item window and the full-availability flag the cache
\* holds for a heading were computed from the same stored list.
C33_SameSnapshot ==
    AllCompleted =>
        \A h \in DOMAIN req.window_from \cap DOMAIN req.flag_from :
            req.window_from[h] = req.flag_from[h]

(* ---------------------------------------------------------------------- *)
(* The cache keys of one user                                              *)
(* ---------------------------------------------------------------------- *)

\* Headings the item form and the sheet import accept next to "A": any text
\* of at most 150 characters (forms.py 103-107; models.py 154-155).
KeyHeadings == {"B", "A-full_available", "db_cache_headers"}

\* The user holds item set A and one more item set.
InitKeys ==
    /\ store \in {<<[NewRow(UserCode) EXCEPT !.item_set_heading = "A",
                                            !.item_set = PyStr(l)],
                    [NewRow(UserCode) EXCEPT !.item_set_heading = h,
                                            !.item_set = PyStr(m)]>> :
                      l \in RaceLists, m \in RaceLists, h \in KeyHeadings}
    /\ cache = EmptyCache
    /\ session = [user_code |-> PyText(UserCode), current_header |-> PyNone]
    /\ media = NoMedia
    /\ requests = 0
    /\ req = [run |-> [p \in Workers |-> Execution("idle", FALSE)],
              window_from |-> [h \in {} |-> <<>>],
              flag_from |-> [h \in {} |-> <<>>]]

SpecKeys == InitKeys /\ [][NextInterleaved]_vars

\* Headings whose flag reload_cache has written.
Flagged == DOMAIN req.flag_from

\* C34: the keys reload_cache derived for the header list, the item windows
\* and the flags of the headings it wrote are pairwise distinct.
C34_KeysDistinct ==
    \A g \in Flagged, h \in Flagged :
        /\ ItemKey(User, h) # HeaderKey(User)
        /\ FullKey(User, h) # HeaderKey(User)
        /\ ItemKey(User, g) # FullKey(User, h)
        /\ g # h => /\ ItemKey(User, g) # ItemKey(User, h)
                    /\ FullKey(User, g) # FullKey(User, h)

(* ---------------------------------------------------------------------- *)
(* reload_cache and its own except KeyError clause                         *)
(* ---------------------------------------------------------------------- *)

\* Nested calls the interpreter allows before it raises RecursionError
\* (sys.getrecursionlimit() is 1000; the runs use a small stack).
RecursionLimit == 4

\* Arguments of a reload_cache call.
ReloadArgs == {PyNone, PyList(<<>>), PyText("A"), PyList(<<"A">>), PyList(<<"__all__">>)}

\* One activation of reload_cache.
\*   at  "body" (the try block is about to run), "first" (the except
\*       KeyError clause waits for reload_cache(True, None)), "second" (it
\*       waits for reload_cache(False, header_items)), "done"
Frame(headers, header_items, at) ==
    [headers |-> headers, header_items |-> header_items, at |-> at]

\* The session holds the user code of the signed-up user or holds no
\* user_code key at all; req.stack holds the activations of the running
\* call and req.outcome how the last call ended.
InitRecursion ==
    /\ store \in {<<>>} \cup {<<[NewRow(UserCode) EXCEPT !.item_set_heading = "A",
                                                       !.item_set = PyStr(l)]>> :
                                l \in RaceLists}
    /\ cache = EmptyCache
    /\ session \in {[user_code |-> c, current_header |-> PyNone] :
                       c \in {KeyMissing, PyText(UserCode)}}
    /\ media = NoMedia
    /\ requests = 0
    /\ req = [stack |-> <<>>, outcome |-> "idle"]

\* The try block of reload_cache (views.py 279-332) for the activation f:
\* the cache it leaves and "None", "False" or the exception it raises.
\* Without a user_code key self.session["user_code"] raises KeyError as
\* soon as headers is true; with headers false the sentinel finds no entry
\* under cache_key_header, which is "" (views.py 1026), and raises
\* ObjectDoesNotExist, and any other argument reads nothing.
TryBlock(st, ca, se, f) ==
    IF se.user_code.t # "missing"
    THEN ReloadCache(st, ca, se.user_code.v, f.headers, f.header_items)
    ELSE IF f.headers THEN [cache |-> ca, result |-> "KeyError"]
    ELSE IF f.header_items.t = "none" THEN [cache |-> ca, result |-> "None"]
    ELSE IF RaisesIndexError(f.header_items) THEN [cache |-> ca, result |-> "IndexError"]
    ELSE IF IsAll(f.header_items) THEN [cache |-> ca, result |-> "False"]
    ELSE [cache |-> ca, result |-> "None"]

Top == req.stack[Len(req.stack)]

Below == SubSeq(req.stack, 1, Len(req.stack) - 1)

\* A handler calls self.reload_cache(headers, header_items).
CallReloadCache(headers, header_items) ==
    /\ req.stack = <<>>
    /\ Tick
    /\ req' = [stack |-> <<Frame(headers, header_items, "body")>>, outcome |-> "running"]
    /\ UNCHANGED <<store, cache, session, media>>

\* views.py 334-335: the try block raised KeyError and the clause calls
\* self.reload_cache(headers=True, header_items=None).
RetryAfterKeyError ==
    /\ req.stack # <<>>
    /\ Top.at = "body"
    /\ TryBlock(store, cache, session, Top).result = "KeyError"
    /\ Len(req.stack) < RecursionLimit
    /\ req' = [req EXCEPT !.stack = Append(Below, [Top EXCEPT !.at = "first"])
                                    \o <<Frame(TRUE, PyNone, "body")>>]
    /\ UNCHANGED <<store, cache, session, media, requests>>

\* The same call with the stack used up: the interpreter raises
\* RecursionError, which no clause of the activations below catches (each
\* of them is inside its except KeyError clause).
StackExhausted ==
    /\ req.stack # <<>>
    /\ Top.at = "body"
    /\ TryBlock(store, cache, session, Top).result = "KeyError"
    /\ Len(req.stack) = RecursionLimit
    /\ req' = [stack |-> <<>>, outcome |-> "RecursionError"]
    /\ UNCHANGED <<store, cache, session, media, requests>>

\* The activation on top returns.  An activation that waited for the first
\* call of its except KeyError clause makes the second one (views.py 336),
\* and one that waited for the second returns None itself.
ReturnFromReload ==
    /\ req.stack # <<>>
    /\ LET r == TryBlock(store, cache, session, Top)
           returns == Top.at = "done" \/ (Top.at = "body" /\ ~Raised(r.result))
           value == IF Top.at = "done" THEN "None" ELSE r.result
           caller == Below[Len(Below)]
       IN /\ returns
          /\ cache' = IF Top.at = "body" THEN r.cache ELSE cache
          /\ req' = IF Below = <<>>
                    THEN [stack |-> <<>>, outcome |-> value]
                    ELSE IF caller.at = "first"
                    THEN [req EXCEPT
                             !.stack = SubSeq(Below, 1, Len(Below) - 1)
                                       \o <<[caller EXCEPT !.at = "second"],
                                            Frame(FALSE, caller.header_items, "body")>>]
                    ELSE [req EXCEPT
                             !.stack = SubSeq(Below, 1, Len(Below) - 1)
                                       \o <<[caller EXCEPT !.at = "done"]>>]
    /\ UNCHANGED <<store, session, media, requests>>

\* views.py 342-344: any other exception is printed and raised again; the
\* activations below are inside their except clauses and let it pass.
RaiseFromReload ==
    /\ req.stack # <<>>
    /\ Top.at = "body"
    /\ LET r == TryBlock(store, cache, session, Top) IN
       /\ Raised(r.result)
       /\ r.result # "KeyError"
       /\ req' = [stack |-> <<>>, outcome |-> r.result]
    /\ UNCHANGED <<store, cache, session, media, requests>>

NextRecursion ==
    \/ \E headers \in BOOLEAN, header_items \in ReloadArgs :
           CallReloadCache(headers, header_items)
    \/ RetryAfterKeyError
    \/ StackExhausted
    \/ ReturnFromReload
    \/ RaiseFromReload

SpecRecursion == InitRecursion /\ [][NextRecursion]_vars

\* C35: a reload_cache call ends by returning or by raising an exception of
\* its own code after a bounded number of re-invocations: no call nests
\* until the interpreter's stack is used up.
C35_BoundedReinvocation == req.outcome # "RecursionError"

(* ---------------------------------------------------------------------- *)
(* What update_inspector_data stores                                       *)
(* ---------------------------------------------------------------------- *)

\* The items of heading h the page showed before the request: the cached
\* item window; the text load_all_inspector_data caches shows every item.
Displayed(ca, st, h) ==
    LET w == CacheGet(ca, ItemKey(User, h)) IN
    IF w.t = "list" THEN ToSet(w.v)
    ELSE IF w.t = "none" THEN {}
    ELSE ToSet(StoredList(st, User, h))

\* C36: an update_inspector_data request that completed leaves in the store
\* every item of the current heading that was stored before it and was not
\* in the item window shown to the user.
C36_HiddenItemsKept ==
    [][(/\ req'.op = "update_inspector_data"
        /\ req'.outcome = "ok"
        /\ req'.arg.t = "str"
        /\ HasStoredList(store, req'.arg.v)
        /\ HasStoredList(store', req'.arg.v))
       => (ToSet(StoredList(store, User, req'.arg.v)) \ Displayed(cache, store, req'.arg.v))
              \subseteq ToSet(StoredList(store', User, req'.arg.v))]_vars

\* C37: an update_inspector_data request that posts new items for a heading
\* with a stored list leaves the new items followed by the existing items
\* ("top") or the existing items followed by the new items (otherwise) as
\* the stored list of the heading.
C37_NewItemsPlaced ==
    [][\A posted \in PostedLists, location \in {"top", "bottom"} :
           (/\ UpdateInspectorData(posted, PyList(<<NewItem>>), location)
            /\ session.current_header.t = "str"
            /\ HasStoredList(store, session.current_header.v)
            /\ Dispatch(store, cache, session).exc = "ok")
           => LET h == session.current_header.v
                  old_item_data == OldItemData(Dispatch(store, cache, session).cache,
                                               session, posted)
                  existing == IF Truthy(old_item_data) THEN old_item_data.v
                              ELSE StoredList(store, User, h)
              IN /\ HasStoredList(store', h)
                 /\ StoredList(store', User, h)
                        = IF location = "top" THEN <<NewItem>> \o existing
                          ELSE existing \o <<NewItem>>]_vars

(* ---------------------------------------------------------------------- *)
(* LogoutView                                                              *)
(* ---------------------------------------------------------------------- *)

\* Whether the text s holds the text c somewhere.
Contains(s, c) ==
    \E i \in 1..(Len(s) - Len(c) + 1) : SubSeq(s, i, i + Len(c) - 1) = c

\* cache.keys(f"*{user_code}*"): redis matches the pattern as a glob, so a
\* key is selected when the text of the user code occurs anywhere in it.
KeysMatching(ca, code) == {k \in DOMAIN ca : Contains(k, code)}

\* The loop cache.delete(key) over the selected keys.
DeleteKeys(ca, keys) == [k \in (DOMAIN ca) \ keys |-> ca[k]]

\* Item sets of user u under the headings hs, in table order.
ItemSetsOf(u, hs, l) ==
    [i \in DOMAIN hs |-> [NewRow(u) EXCEPT !.item_set_heading = hs[i],
                                           !.item_set = PyStr(l)]]

\* Two signed-up users with item sets; the second one may have chosen the
\* code of the first as a heading.
InitLogout ==
    /\ \E a \in {<<"A">>, <<"A", "B">>}, b \in {<<"A">>, <<"ab12">>, <<"A", "ab12">>},
          l \in RaceLists, m \in RaceLists :
           store = ItemSetsOf("ab12", a, l) \o ItemSetsOf("cd34", b, m)
    /\ cache = EmptyCache
    /\ session = [u \in ExportUsers |->
                     [user_code |-> PyText(u), current_header |-> PyNone]]
    /\ media = NoMedia
    /\ requests = 0
    /\ req = [op |-> "init", user |-> "", before |-> cache]

\* GET / by the session of u: dispatch reloads the cache of the user when
\* the header list is not cached; a session without a user code reloads
\* nothing.
GetBy(u) ==
    /\ Tick
    /\ cache' = IF session[u].user_code.t = "missing" THEN cache
                ELSE Dispatch(store, cache, session[u]).cache
    /\ req' = [op |-> "get", user |-> u, before |-> cache]
    /\ UNCHANGED <<store, session, media>>

\* GET /logout by the session of u (views.py 1770-1783): the selected keys
\* are deleted and logout(request) flushes the session.
Logout(u) ==
    /\ Tick
    /\ cache' = DeleteKeys(cache, KeysMatching(cache, FStr(SessionGet(session[u].user_code))))
    /\ session' = [session EXCEPT ![u] = [user_code |-> KeyMissing,
                                          current_header |-> KeyMissing]]
    /\ req' = [op |-> "logout", user |-> FStr(SessionGet(session[u].user_code)),
               before |-> cache]
    /\ UNCHANGED <<store, media>>

NextLogout ==
    \/ \E u \in ExportUsers : GetBy(u)
    \/ \E u \in ExportUsers : Logout(u)

SpecLogout == InitLogout /\ [][NextLogout]_vars

\* The cache keys that belong to the user with code c.
KeysOf(ca, c) == {k \in DOMAIN ca : Prefix(k, Len(c) + 1) = c \o "-"}

\* C38: after a logout of a user the cache holds no entry of that user and
\* still holds, unchanged, every entry the other users had before it.
C38_LogoutRemovesOwnOnly ==
    (req.op = "logout" /\ req.user \in ExportUsers)
    => /\ KeysOf(cache, req.user) = {}
       /\ \A v \in ExportUsers \ {req.user} :
              \A k \in KeysOf(req.before, v) :
                  k \in DOMAIN cache /\ cache[k] = req.before[k]

ExceptionHandlerCatches ==
    {"ObjectDoesNotExist", "MultipleObjectsReturned", "ValidationError",
     "SuspiciousOperation", "PermissionDenied", "ConnectionError", "TypeError",
     "Http404", "IntegrityError", "DataError", "DatabaseError", "OperationalError"}

\* What the wrapper of page_renderer gives back to View.dispatch for a
\* handler that ended with `outcome`: the rendered page after a normal end;
\* after a caught exception handle_exception records the message and the
\* wrapper falls off its end, returning None; any other exception leaves
\* the wrapper.
PageRenderer(outcome) ==
    IF outcome = "ok" THEN "HttpResponse"
    ELSE IF outcome \in ExceptionHandlerCatches THEN "None"
    ELSE "raised"

\* C40: every request to IndexView whose handler ended normally or with an
\* exception kind that exception_handler catches is answered with the
\* rendered page.
C40_AlwaysRendered ==
    (/\ req.op \notin {"init", "expire", "reload_cache"}
     /\ req.outcome \in {"ok"} \cup ExceptionHandlerCatches)
    => PageRenderer(req.outcome) = "HttpResponse"

====
